---- MODULE Spec2Model ----
(***************************************************************************)
(* Vote ledger and acceptance state of the Q&A backend.                    *)
(*                                                                         *)
(* Documents live in three collections (questions, answers,                *)
(* notifications).  A route handler works on in-memory copies obtained by  *)
(* findById and writes them back with save().  save() is Mongoose's: it    *)
(* sends only the paths modified since the load (a $set per changed        *)
(* scalar, a $push for Array.push, a $set of the whole array for splice,   *)
(* a positional $set for an edited array element) and guards array         *)
(* rewrites with the version key __v.                                      *)
(*                                                                         *)
(* Every handler is a sequence of steps, one per await that touches the    *)
(* database.  HandlerStep runs one step; RunToEnd runs a request to its    *)
(* response.  The sequential specifications run whole handlers, the        *)
(* interleaved ones run single steps of several requests.                  *)
(***************************************************************************)
EXTENDS Integers, Sequences, FiniteSets, TLC

\* ---------------------------------------------------------------- bounds
\* Users 1..NumUsers; user 1 asked the question, users 2 and 3 answered it.
NumUsers == 3
\* Requests served in a run where they are served one at a time.
MaxRequests == 3
\* Requests served in a run where they may overlap.
MaxOverlapped == 3
\* Requests in flight at once.
MaxInFlight == 2
\* Votes served, one at a time, in a run whose votes all address one item.
MaxScenario == 4
\* Requests served in a run whose requests are drawn from wider sets (every
\* route, or every outcome of the notification).
MaxWide == 2

\* ------------------------------------------------------------ identifiers
NULL == "null"
NullDoc == [isNull |-> TRUE]

Users == 1..NumUsers
QuestionIds == {"q1"}
AnswerIds == {"a1", "a2"}
UnknownId == "zz"

VoteTypes == {"up", "down"}
VoteInputs == VoteTypes \cup {"sideways"}

\* An answer's content stands as its length; the schema and the routes'
\* validators ask for at least 30 characters.
MinContentLength == 30
ContentInputs == {MinContentLength - 1, MinContentLength, MinContentLength + 1}

\* userSchema.role
Roles == {"user", "admin"}

\* The ids MongoDB hands to answers posted later on.
PostedIds == {"a3"}
\* minlength of a question's description, the lengths a request body's
\* description is drawn from (0: the body has none), and the _id a question
\* created by POST /api/questions gets.
MinDescriptionLength == 30
DescriptionInputs == {0, MinDescriptionLength - 1, MinDescriptionLength + 1}
PostedQuestionIds == {"q2"}
\* The default page size of GET /api/notifications.
PageLimit == 20

\* questions, answers, notifications: the three collections.
\* requests: the requests in flight or just answered, by slot.
\* served: how many requests have arrived.
\* before: the questions and answers as they were when the request that
\*         was served last arrived (a history variable; no handler reads it).
\* client: the state of the front-end's NotificationProvider (its user, its
\*         notifications and its unreadCount).
VARIABLES questions, answers, notifications, requests, served, before, client

vars == <<questions, answers, notifications, requests, served, before, client>>

\* ------------------------------------------------------- schema defaults
\* Answer document: votes 0, isAccepted false, isDeleted false, empty
\* voteHistory; v is Mongoose's version key __v.  Left out: the timestamps
\* (createdAt, updatedAt, and createdAt of a voteHistory entry), which no
\* handler modelled here reads.
NewAnswer(questionId, answeredBy) ==
    [content |-> MinContentLength,
     questionId |-> questionId, answeredBy |-> answeredBy, votes |-> 0,
     isAccepted |-> FALSE, isDeleted |-> FALSE, voteHistory |-> <<>>, v |-> 0]

\* Question document: votes 0, views 0, isClosed false, isDeleted false,
\* acceptedAnswer null, empty voteHistory; description is the description's
\* length.  Left out: title and tags, which are validated and stored like
\* the description and read by no handler.
NewQuestion(askedBy) ==
    [description |-> MinDescriptionLength, askedBy |-> askedBy,
     votes |-> 0, views |-> 0, isClosed |-> FALSE, isDeleted |-> FALSE,
     acceptedAnswer |-> NULL, voteHistory |-> <<>>, v |-> 0]

\* ------------------------------------------------------------- documents
\* An in-memory document: cur is what the handler sees and mutates, orig is
\* what findById returned (save() sends the difference), op is the atomic
\* operation the voteHistory array has recorded since the load.
Loaded(doc) == [cur |-> doc, orig |-> doc, op |-> "none"]

\* findById as it would be if it returned every document as not deleted.
findById_HidesDeleted(coll, id) ==
    IF id \in DOMAIN coll THEN Loaded([coll[id] EXCEPT !.isDeleted = FALSE])
    ELSE NullDoc

\* Model.findById: the stored document, or null.
findById(coll, id) == IF id \in DOMAIN coll THEN Loaded(coll[id]) ELSE NullDoc

\* findIndex as it would be if only the first entry were compared.
findIndex_FirstEntryOnly(voteHistory, userId) ==
    IF Len(voteHistory) > 0 /\ voteHistory[1].user = userId THEN 1 ELSE 0

\* Array.prototype.findIndex over voteHistory; 0 stands for JavaScript's -1
\* (sequences are 1-based).
findIndex(voteHistory, userId) ==
    LET hits == {i \in 1..Len(voteHistory) : voteHistory[i].user = userId}
    IN  IF hits = {} THEN 0
        ELSE CHOOSE i \in hits : \A j \in hits : i <= j

\* splice as it would be if it always removed the first element.
splice_First(s, i) == SubSeq(s, 2, Len(s))

\* Array.prototype.splice(i, 1)
splice(s, i) == SubSeq(s, 1, i - 1) \o SubSeq(s, i + 1, Len(s))

\* vote as it would be if a changed vote moved the score by one, not two.
voteInMemory_ChangeByOne(m, userId, voteType) ==
    LET existingVoteIndex == findIndex(m.cur.voteHistory, userId) IN
    IF existingVoteIndex > 0
    THEN LET existingVote == m.cur.voteHistory[existingVoteIndex] IN
         IF existingVote.vote = voteType
         THEN [m EXCEPT
                 !.cur.votes = @ - (IF existingVote.vote = "up" THEN 1 ELSE -1),
                 !.cur.voteHistory = splice(@, existingVoteIndex),
                 !.op = "$set"]
         ELSE [m EXCEPT
                 !.cur.votes = @ + (IF voteType = "up" THEN 1 ELSE -1),
                 !.cur.voteHistory[existingVoteIndex].vote = voteType,
                 !.op = IF m.op = "none" THEN "element" ELSE m.op]
    ELSE [m EXCEPT
            !.cur.votes = @ + (IF voteType = "up" THEN 1 ELSE -1),
            !.cur.voteHistory = Append(@, [user |-> userId, vote |-> voteType]),
            !.op = IF m.op = "none" THEN "$push" ELSE m.op]

\* vote as it would be if taking a vote back left the score alone.
voteInMemory_ToggleKeepsScore(m, userId, voteType) ==
    LET existingVoteIndex == findIndex(m.cur.voteHistory, userId) IN
    IF existingVoteIndex > 0
    THEN LET existingVote == m.cur.voteHistory[existingVoteIndex] IN
         IF existingVote.vote = voteType
         THEN [m EXCEPT
                 !.cur.voteHistory = splice(@, existingVoteIndex),
                 !.op = "$set"]
         ELSE [m EXCEPT
                 !.cur.votes = @ + (IF voteType = "up" THEN 2 ELSE -2),
                 !.cur.voteHistory[existingVoteIndex].vote = voteType,
                 !.op = IF m.op = "none" THEN "element" ELSE m.op]
    ELSE [m EXCEPT
            !.cur.votes = @ + (IF voteType = "up" THEN 1 ELSE -1),
            !.cur.voteHistory = Append(@, [user |-> userId, vote |-> voteType]),
            !.op = IF m.op = "none" THEN "$push" ELSE m.op]

\* schema.methods.vote up to its save(): the in-memory mutation.
voteInMemory(m, userId, voteType) ==
    LET existingVoteIndex == findIndex(m.cur.voteHistory, userId) IN
    IF existingVoteIndex > 0
    THEN LET existingVote == m.cur.voteHistory[existingVoteIndex] IN
         IF existingVote.vote = voteType
         THEN [m EXCEPT
                 !.cur.votes = @ - (IF existingVote.vote = "up" THEN 1 ELSE -1),
                 !.cur.voteHistory = splice(@, existingVoteIndex),
                 !.op = "$set"]
         ELSE [m EXCEPT
                 !.cur.votes = @ + (IF voteType = "up" THEN 2 ELSE -2),
                 !.cur.voteHistory[existingVoteIndex].vote = voteType,
                 !.op = IF m.op = "none" THEN "element" ELSE m.op]
    ELSE [m EXCEPT
            !.cur.votes = @ + (IF voteType = "up" THEN 1 ELSE -1),
            !.cur.voteHistory = Append(@, [user |-> userId, vote |-> voteType]),
            !.op = IF m.op = "none" THEN "$push" ELSE m.op]

\* unaccept as it would be if it left the flag alone.
unacceptInMemory_Noop(m) == m

\* answerSchema.methods.accept / unaccept up to their save()
acceptInMemory(m) == [m EXCEPT !.cur.isAccepted = TRUE]
unacceptInMemory(m) == [m EXCEPT !.cur.isAccepted = FALSE]

\* ------------------------------------------------------- Mongoose save()
\* save() checks the version key when array positions may have moved: a
\* whole-array $set (splice) and a positional element $set.
VersionWhere(m) == m.op \in {"$set", "element"}

\* save() increments the version key for $push and for a whole-array $set.
VersionInc(m) == m.op \in {"$push", "$set"}

\* The array the update leaves in the store.
SavedHistory(stored, m) ==
    CASE m.op = "$push" ->
           stored.voteHistory \o
             SubSeq(m.cur.voteHistory, Len(m.orig.voteHistory) + 1,
                    Len(m.cur.voteHistory))
      [] m.op = "$set" -> m.cur.voteHistory
      [] m.op = "element" ->
           [i \in 1..Len(stored.voteHistory) |->
              IF m.cur.voteHistory[i] # m.orig.voteHistory[i]
              THEN [stored.voteHistory[i] EXCEPT !.vote = m.cur.voteHistory[i].vote]
              ELSE stored.voteHistory[i]]
      [] OTHER -> stored.voteHistory

\* save() as it would be if it wrote every path of the in-memory document
\* and not only the modified ones.
save_WholeDocument(stored, m) ==
    IF VersionWhere(m) /\ stored.v # m.orig.v
    THEN [ok |-> FALSE, doc |-> stored]
    ELSE [ok |-> TRUE,
          doc |-> [f \in DOMAIN stored |->
                     IF f = "voteHistory" THEN SavedHistory(stored, m)
                     ELSE IF f = "v"
                       THEN (IF VersionInc(m) THEN stored.v + 1 ELSE stored.v)
                     ELSE m.cur[f]]]

\* save(): [ok, doc].  ok = FALSE is Mongoose's VersionError (the update
\* matched no document); the store is then unchanged.
save(stored, m) ==
    IF VersionWhere(m) /\ stored.v # m.orig.v
    THEN [ok |-> FALSE, doc |-> stored]
    ELSE [ok |-> TRUE,
          doc |-> [f \in DOMAIN stored |->
                     IF f = "voteHistory" THEN SavedHistory(stored, m)
                     ELSE IF f = "v"
                       THEN (IF VersionInc(m) THEN stored.v + 1 ELSE stored.v)
                     ELSE IF m.cur[f] # m.orig[f] THEN m.cur[f]
                     ELSE stored[f]]]

\* The in-memory document after a successful save(): nothing is modified
\* any more, and __v follows the increment.
Saved(m) ==
    LET c == [m.cur EXCEPT !.v = IF VersionInc(m) THEN @ + 1 ELSE @]
    IN  [cur |-> c, orig |-> c, op |-> "none"]

\* ------------------------------------------------------------ the store
DB == [questions |-> questions, answers |-> answers,
       notifications |-> notifications]

\* ---------------------------------------------------------- notifications
\* Notification.createNotification -> Model.create: one more document,
\* read = false by schema default.  The title, message and link strings
\* are kept as the one word that varies (message).
createNotification(db, data) ==
    [db EXCEPT !.notifications =
       Append(@, [f \in DOMAIN data \cup {"_id"} |->
                    IF f = "_id" THEN Len(@) + 1 ELSE data[f]])]

\* NotificationService.notifyVoteReceived
notifyVoteReceived(db, itemId, itemType, voterId, itemOwnerId, isUpvote) ==
    IF voterId = itemOwnerId
    THEN db
    ELSE createNotification(db,
           [recipientId |-> itemOwnerId, senderId |-> voterId, type |-> "vote",
            message |-> IF isUpvote THEN "upvoted" ELSE "downvoted",
            questionId |-> IF itemType = "question" THEN itemId ELSE NULL,
            answerId |-> IF itemType = "answer" THEN itemId ELSE NULL,
            read |-> FALSE])

\* NotificationService.notifyAnswerAccepted
notifyAnswerAccepted(db, answerId, questionId, answerAuthorId) ==
    createNotification(db,
      [recipientId |-> answerAuthorId, senderId |-> answerAuthorId,
       type |-> "accept", message |-> "accepted",
       questionId |-> questionId, answerId |-> answerId, read |-> FALSE])

\* --------------------------------------------------------------- requests
\* A request: its route (kind), its parameters (:id, req.user._id,
\* req.body.vote), whether Notification.create will throw for it
\* (notifFails, the environment's choice), the database operation it is
\* waiting for (pc), the handler's local documents, and the response.
\* req.user.role and req.body.content are read by the routes that edit,
\* delete and post; WithBody sets them.  newId is the _id of the answer a
\* post creates.
NewRequest(kind, id, user, vote, notifFails) ==
    [kind |-> kind, id |-> id, user |-> user, vote |-> vote,
     role |-> "user", content |-> 0, newId |-> NULL,
     notificationId |-> 0, body |-> <<>>,
     notifFails |-> notifFails, pc |-> "findAnswer",
     answer |-> NullDoc, question |-> NullDoc, previousAnswer |-> NullDoc,
     status |-> 0, message |-> ""]

WithBody(r, role, content) == [r EXCEPT !.role = role, !.content = content]

\* A request of the notification routes: :id is a notification's _id.
NotificationKinds ==
    {"getNotifications", "markAsRead", "markAllAsRead", "deleteNotification"}

OfNotification(kind, notificationId, user) ==
    [NewRequest(kind, NULL, user, NULL, FALSE)
       EXCEPT !.notificationId = notificationId]

Idle == [NewRequest("none", NULL, 0, NULL, FALSE) EXCEPT !.pc = "idle"]

\* res.status(status).json({message}): the handler is over, its locals die.
Respond(r, status, message) ==
    [r EXCEPT !.pc = "done", !.status = status, !.message = message,
              !.answer = NullDoc, !.question = NullDoc,
              !.previousAnswer = NullDoc]

Out(db, r) == [db |-> db, req |-> r]

\* The handler up to its first await as it would be without the validator of
\* req.body.vote.
Begin_NoVoteValidator(r) ==
    IF r.kind \in {"editAnswer", "postAnswer"} /\ r.content < MinContentLength
    THEN Respond(r, 400, "Validation failed")
    ELSE IF r.kind = "postQuestion" /\ r.content < MinDescriptionLength
    THEN Respond(r, 400, "Validation failed")
    ELSE IF r.kind = "editQuestion" /\ r.content # 0
            /\ r.content < MinDescriptionLength
    THEN Respond(r, 400, "Validation failed")
    ELSE [r EXCEPT !.pc = IF r.kind \in NotificationKinds THEN "callService"
                          ELSE IF r.kind = "postQuestion" THEN "saveQuestion"
                          ELSE IF r.kind \in {"voteQuestion", "deleteQuestion",
                                              "postAnswer", "viewQuestion",
                                              "editQuestion"}
                          THEN "findQuestion" ELSE "findAnswer"]

\* The handler up to its first await: express-validator's isIn(['up',
\* 'down']) on the two vote routes and isLength({min: 30}) on the routes
\* that take a content, then the first findById is issued.
Begin(r) ==
    IF r.kind \in {"voteAnswer", "voteQuestion"} /\ r.vote \notin VoteTypes
    THEN Respond(r, 400, "Validation failed")
    ELSE IF r.kind \in {"editAnswer", "postAnswer"} /\ r.content < MinContentLength
    THEN Respond(r, 400, "Validation failed")
    ELSE IF r.kind = "postQuestion" /\ r.content < MinDescriptionLength
    THEN Respond(r, 400, "Validation failed")
    ELSE IF r.kind = "editQuestion" /\ r.content # 0
            /\ r.content < MinDescriptionLength
    THEN Respond(r, 400, "Validation failed")
    ELSE [r EXCEPT !.pc = IF r.kind \in NotificationKinds THEN "callService"
                          ELSE IF r.kind = "postQuestion" THEN "saveQuestion"
                          ELSE IF r.kind \in {"voteQuestion", "deleteQuestion",
                                              "postAnswer", "viewQuestion",
                                              "editQuestion"}
                          THEN "findQuestion" ELSE "findAnswer"]

\* POST /api/answers/:id/vote as it would be without the check of the
\* voter against answeredBy.
voteAnswerStep_NoSelfCheck(db, r) ==
    CASE r.pc = "findAnswer" ->
           LET answer == findById(db.answers, r.id) IN
           IF answer = NullDoc \/ answer.cur.isDeleted
           THEN Out(db, Respond(r, 404, "Answer not found"))
           ELSE Out(db, [r EXCEPT !.answer = voteInMemory(answer, r.user, r.vote),
                                  !.pc = "saveAnswer"])
      [] r.pc = "saveAnswer" ->
           LET res == save(db.answers[r.id], r.answer) IN
           IF res.ok
           THEN Out([db EXCEPT !.answers[r.id] = res.doc],
                    [r EXCEPT !.answer = Saved(r.answer), !.pc = "notify"])
           ELSE Out(db, Respond(r, 500, "Server error"))
      [] r.pc = "notify" ->
           Out(IF r.notifFails THEN db
               ELSE notifyVoteReceived(db, r.id, "answer", r.user,
                                       r.answer.cur.answeredBy, r.vote = "up"),
               Respond(r, 200, "Vote recorded successfully"))

\* ------------------------------------------------ POST /api/answers/:id/vote
\* One step: the database operation the request waits for, then the
\* handler's code up to its next await.
voteAnswerStep(db, r) ==
    CASE r.pc = "findAnswer" ->
           LET answer == findById(db.answers, r.id) IN
           IF answer = NullDoc \/ answer.cur.isDeleted
           THEN Out(db, Respond(r, 404, "Answer not found"))
           ELSE IF answer.cur.answeredBy = r.user
           THEN Out(db, Respond(r, 400, "Cannot vote on your own answer"))
           ELSE Out(db, [r EXCEPT !.answer = voteInMemory(answer, r.user, r.vote),
                                  !.pc = "saveAnswer"])
      [] r.pc = "saveAnswer" ->
           LET res == save(db.answers[r.id], r.answer) IN
           IF res.ok
           THEN Out([db EXCEPT !.answers[r.id] = res.doc],
                    [r EXCEPT !.answer = Saved(r.answer), !.pc = "notify"])
           ELSE Out(db, Respond(r, 500, "Server error"))
      [] r.pc = "notify" ->
           Out(IF r.notifFails THEN db
               ELSE notifyVoteReceived(db, r.id, "answer", r.user,
                                       r.answer.cur.answeredBy, r.vote = "up"),
               Respond(r, 200, "Vote recorded successfully"))

\* POST /api/questions/:id/vote as it would be if a notification error
\* reached the handler's outer catch.
voteQuestionStep_NotifyThrows(db, r) ==
    CASE r.pc = "findQuestion" ->
           LET question == findById(db.questions, r.id) IN
           IF question = NullDoc \/ question.cur.isDeleted
           THEN Out(db, Respond(r, 404, "Question not found"))
           ELSE IF question.cur.askedBy = r.user
           THEN Out(db, Respond(r, 400, "Cannot vote on your own question"))
           ELSE Out(db, [r EXCEPT !.question = voteInMemory(question, r.user, r.vote),
                                  !.pc = "saveQuestion"])
      [] r.pc = "saveQuestion" ->
           LET res == save(db.questions[r.id], r.question) IN
           IF res.ok
           THEN Out([db EXCEPT !.questions[r.id] = res.doc],
                    [r EXCEPT !.question = Saved(r.question), !.pc = "notify"])
           ELSE Out(db, Respond(r, 500, "Server error"))
      [] r.pc = "notify" ->
           IF r.notifFails
           THEN Out(db, Respond(r, 500, "Server error"))
           ELSE Out(notifyVoteReceived(db, r.id, "question", r.user,
                                       r.question.cur.askedBy, r.vote = "up"),
                    Respond(r, 200, "Vote recorded successfully"))

\* ---------------------------------------------- POST /api/questions/:id/vote
voteQuestionStep(db, r) ==
    CASE r.pc = "findQuestion" ->
           LET question == findById(db.questions, r.id) IN
           IF question = NullDoc \/ question.cur.isDeleted
           THEN Out(db, Respond(r, 404, "Question not found"))
           ELSE IF question.cur.askedBy = r.user
           THEN Out(db, Respond(r, 400, "Cannot vote on your own question"))
           ELSE Out(db, [r EXCEPT !.question = voteInMemory(question, r.user, r.vote),
                                  !.pc = "saveQuestion"])
      [] r.pc = "saveQuestion" ->
           LET res == save(db.questions[r.id], r.question) IN
           IF res.ok
           THEN Out([db EXCEPT !.questions[r.id] = res.doc],
                    [r EXCEPT !.question = Saved(r.question), !.pc = "notify"])
           ELSE Out(db, Respond(r, 500, "Server error"))
      [] r.pc = "notify" ->
           Out(IF r.notifFails THEN db
               ELSE notifyVoteReceived(db, r.id, "question", r.user,
                                       r.question.cur.askedBy, r.vote = "up"),
               Respond(r, 200, "Vote recorded successfully"))

\* PATCH /api/answers/:id/accept as it would be if the notification were
\* sent before the answer and the question are saved.
acceptStep_NotifiesFirst(db, r) ==
    CASE r.pc = "findAnswer" ->
           LET answer == findById(db.answers, r.id) IN
           IF answer = NullDoc \/ answer.cur.isDeleted
           THEN Out(db, Respond(r, 404, "Answer not found"))
           ELSE Out(db, [r EXCEPT !.answer = answer, !.pc = "findQuestion"])
      [] r.pc = "findQuestion" ->
           LET question == findById(db.questions, r.answer.cur.questionId) IN
           IF question = NullDoc \/ question.cur.isDeleted
           THEN Out(db, Respond(r, 404, "Question not found"))
           ELSE IF question.cur.askedBy # r.user
           THEN Out(db, Respond(r, 403, "Only the question owner can accept answers"))
           ELSE Out(db, [r EXCEPT !.question = question,
                                  !.pc = IF question.cur.acceptedAnswer # NULL
                                         THEN "findPrevious" ELSE "notify"])
      [] r.pc = "findPrevious" ->
           LET previousAnswer == findById(db.answers, r.question.cur.acceptedAnswer) IN
           IF previousAnswer # NullDoc
           THEN Out(db, [r EXCEPT !.previousAnswer = unacceptInMemory(previousAnswer),
                                  !.pc = "savePrevious"])
           ELSE Out(db, [r EXCEPT !.pc = "notify"])
      [] r.pc = "savePrevious" ->
           LET prevId == r.question.cur.acceptedAnswer
               res == save(db.answers[prevId], r.previousAnswer) IN
           Out([db EXCEPT !.answers[prevId] = res.doc],
               [r EXCEPT !.previousAnswer = Saved(r.previousAnswer),
                         !.pc = "notify"])
      [] r.pc = "notify" ->
           Out(IF r.notifFails THEN db
               ELSE notifyAnswerAccepted(db, r.id, r.answer.cur.questionId,
                                         r.answer.cur.answeredBy),
               [r EXCEPT !.pc = "saveAnswer"])
      [] r.pc = "saveAnswer" ->
           LET m == acceptInMemory(r.answer)
               res == save(db.answers[r.id], m) IN
           Out([db EXCEPT !.answers[r.id] = res.doc],
               [r EXCEPT !.answer = Saved(m), !.pc = "saveQuestion"])
      [] r.pc = "saveQuestion" ->
           LET qid == r.answer.cur.questionId
               m == [r.question EXCEPT !.cur.acceptedAnswer = r.id]
               res == save(db.questions[qid], m) IN
           Out([db EXCEPT !.questions[qid] = res.doc],
               Respond(r, 200, "Answer accepted successfully"))

\* PATCH /api/answers/:id/accept as it would be without the check of the
\* requester against askedBy.
acceptStep_NoOwnerCheck(db, r) ==
    CASE r.pc = "findAnswer" ->
           LET answer == findById(db.answers, r.id) IN
           IF answer = NullDoc \/ answer.cur.isDeleted
           THEN Out(db, Respond(r, 404, "Answer not found"))
           ELSE Out(db, [r EXCEPT !.answer = answer, !.pc = "findQuestion"])
      [] r.pc = "findQuestion" ->
           LET question == findById(db.questions, r.answer.cur.questionId) IN
           IF question = NullDoc \/ question.cur.isDeleted
           THEN Out(db, Respond(r, 404, "Question not found"))
           ELSE Out(db, [r EXCEPT !.question = question,
                                  !.pc = IF question.cur.acceptedAnswer # NULL
                                         THEN "findPrevious" ELSE "saveAnswer"])
      [] r.pc = "findPrevious" ->
           LET previousAnswer == findById(db.answers, r.question.cur.acceptedAnswer) IN
           IF previousAnswer # NullDoc
           THEN Out(db, [r EXCEPT !.previousAnswer = unacceptInMemory(previousAnswer),
                                  !.pc = "savePrevious"])
           ELSE Out(db, [r EXCEPT !.pc = "saveAnswer"])
      [] r.pc = "savePrevious" ->
           LET prevId == r.question.cur.acceptedAnswer
               res == save(db.answers[prevId], r.previousAnswer) IN
           Out([db EXCEPT !.answers[prevId] = res.doc],
               [r EXCEPT !.previousAnswer = Saved(r.previousAnswer),
                         !.pc = "saveAnswer"])
      [] r.pc = "saveAnswer" ->
           LET m == acceptInMemory(r.answer)
               res == save(db.answers[r.id], m) IN
           Out([db EXCEPT !.answers[r.id] = res.doc],
               [r EXCEPT !.answer = Saved(m), !.pc = "saveQuestion"])
      [] r.pc = "saveQuestion" ->
           LET qid == r.answer.cur.questionId
               m == [r.question EXCEPT !.cur.acceptedAnswer = r.id]
               res == save(db.questions[qid], m) IN
           Out([db EXCEPT !.questions[qid] = res.doc],
               [r EXCEPT !.question = Saved(m), !.pc = "notify"])
      [] r.pc = "notify" ->
           Out(IF r.notifFails THEN db
               ELSE notifyAnswerAccepted(db, r.id, r.answer.cur.questionId,
                                         r.answer.cur.answeredBy),
               Respond(r, 200, "Answer accepted successfully"))

\* PATCH /api/answers/:id/accept as it would be if its last write set
\* acceptedAnswer on every question and not only on the one it loaded.
acceptStep_UpdatesEveryQuestion(db, r) ==
    CASE r.pc = "findAnswer" ->
           LET answer == findById(db.answers, r.id) IN
           IF answer = NullDoc \/ answer.cur.isDeleted
           THEN Out(db, Respond(r, 404, "Answer not found"))
           ELSE Out(db, [r EXCEPT !.answer = answer, !.pc = "findQuestion"])
      [] r.pc = "findQuestion" ->
           LET question == findById(db.questions, r.answer.cur.questionId) IN
           IF question = NullDoc \/ question.cur.isDeleted
           THEN Out(db, Respond(r, 404, "Question not found"))
           ELSE IF question.cur.askedBy # r.user
           THEN Out(db, Respond(r, 403, "Only the question owner can accept answers"))
           ELSE Out(db, [r EXCEPT !.question = question,
                                  !.pc = IF question.cur.acceptedAnswer # NULL
                                         THEN "findPrevious" ELSE "saveAnswer"])
      [] r.pc = "findPrevious" ->
           LET previousAnswer == findById(db.answers, r.question.cur.acceptedAnswer) IN
           IF previousAnswer # NullDoc
           THEN Out(db, [r EXCEPT !.previousAnswer = unacceptInMemory(previousAnswer),
                                  !.pc = "savePrevious"])
           ELSE Out(db, [r EXCEPT !.pc = "saveAnswer"])
      [] r.pc = "savePrevious" ->
           LET prevId == r.question.cur.acceptedAnswer
               res == save(db.answers[prevId], r.previousAnswer) IN
           Out([db EXCEPT !.answers[prevId] = res.doc],
               [r EXCEPT !.previousAnswer = Saved(r.previousAnswer),
                         !.pc = "saveAnswer"])
      [] r.pc = "saveAnswer" ->
           LET m == acceptInMemory(r.answer)
               res == save(db.answers[r.id], m) IN
           Out([db EXCEPT !.answers[r.id] = res.doc],
               [r EXCEPT !.answer = Saved(m), !.pc = "saveQuestion"])
      [] r.pc = "saveQuestion" ->
           LET qid == r.answer.cur.questionId
               m == [r.question EXCEPT !.cur.acceptedAnswer = r.id]
               res == save(db.questions[qid], m) IN
           Out([db EXCEPT !.questions =
                            [q \in DOMAIN @ |->
                               IF q = qid THEN res.doc
                               ELSE [@[q] EXCEPT !.acceptedAnswer = r.id]]],
               [r EXCEPT !.question = Saved(m), !.pc = "notify"])
      [] r.pc = "notify" ->
           Out(IF r.notifFails THEN db
               ELSE notifyAnswerAccepted(db, r.id, r.answer.cur.questionId,
                                         r.answer.cur.answeredBy),
               Respond(r, 200, "Answer accepted successfully"))

\* --------------------------------------------- PATCH /api/answers/:id/accept
acceptStep(db, r) ==
    CASE r.pc = "findAnswer" ->
           LET answer == findById(db.answers, r.id) IN
           IF answer = NullDoc \/ answer.cur.isDeleted
           THEN Out(db, Respond(r, 404, "Answer not found"))
           ELSE Out(db, [r EXCEPT !.answer = answer, !.pc = "findQuestion"])
      [] r.pc = "findQuestion" ->
           LET question == findById(db.questions, r.answer.cur.questionId) IN
           IF question = NullDoc \/ question.cur.isDeleted
           THEN Out(db, Respond(r, 404, "Question not found"))
           ELSE IF question.cur.askedBy # r.user
           THEN Out(db, Respond(r, 403, "Only the question owner can accept answers"))
           ELSE Out(db, [r EXCEPT !.question = question,
                                  !.pc = IF question.cur.acceptedAnswer # NULL
                                         THEN "findPrevious" ELSE "saveAnswer"])
      [] r.pc = "findPrevious" ->
           LET previousAnswer == findById(db.answers, r.question.cur.acceptedAnswer) IN
           IF previousAnswer # NullDoc
           THEN Out(db, [r EXCEPT !.previousAnswer = unacceptInMemory(previousAnswer),
                                  !.pc = "savePrevious"])
           ELSE Out(db, [r EXCEPT !.pc = "saveAnswer"])
      [] r.pc = "savePrevious" ->
           LET prevId == r.question.cur.acceptedAnswer
               res == save(db.answers[prevId], r.previousAnswer) IN
           Out([db EXCEPT !.answers[prevId] = res.doc],
               [r EXCEPT !.previousAnswer = Saved(r.previousAnswer),
                         !.pc = "saveAnswer"])
      [] r.pc = "saveAnswer" ->
           LET m == acceptInMemory(r.answer)
               res == save(db.answers[r.id], m) IN
           Out([db EXCEPT !.answers[r.id] = res.doc],
               [r EXCEPT !.answer = Saved(m), !.pc = "saveQuestion"])
      [] r.pc = "saveQuestion" ->
           LET qid == r.answer.cur.questionId
               m == [r.question EXCEPT !.cur.acceptedAnswer = r.id]
               res == save(db.questions[qid], m) IN
           Out([db EXCEPT !.questions[qid] = res.doc],
               [r EXCEPT !.question = Saved(m), !.pc = "notify"])
      [] r.pc = "notify" ->
           Out(IF r.notifFails THEN db
               ELSE notifyAnswerAccepted(db, r.id, r.answer.cur.questionId,
                                         r.answer.cur.answeredBy),
               Respond(r, 200, "Answer accepted successfully"))

\* PATCH /api/answers/:id/unaccept as it would be without the check that the
\* answer is the accepted one.
unacceptStep_NoAcceptedCheck(db, r) ==
    CASE r.pc = "findAnswer" ->
           LET answer == findById(db.answers, r.id) IN
           IF answer = NullDoc \/ answer.cur.isDeleted
           THEN Out(db, Respond(r, 404, "Answer not found"))
           ELSE Out(db, [r EXCEPT !.answer = answer, !.pc = "findQuestion"])
      [] r.pc = "findQuestion" ->
           LET question == findById(db.questions, r.answer.cur.questionId) IN
           IF question = NullDoc \/ question.cur.isDeleted
           THEN Out(db, Respond(r, 404, "Question not found"))
           ELSE IF question.cur.askedBy # r.user
           THEN Out(db, Respond(r, 403, "Only the question owner can unaccept answers"))
           ELSE Out(db, [r EXCEPT !.question = question, !.pc = "saveAnswer"])
      [] r.pc = "saveAnswer" ->
           LET m == unacceptInMemory(r.answer)
               res == save(db.answers[r.id], m) IN
           Out([db EXCEPT !.answers[r.id] = res.doc],
               [r EXCEPT !.answer = Saved(m), !.pc = "saveQuestion"])
      [] r.pc = "saveQuestion" ->
           LET qid == r.answer.cur.questionId
               m == [r.question EXCEPT !.cur.acceptedAnswer = NULL]
               res == save(db.questions[qid], m) IN
           Out([db EXCEPT !.questions[qid] = res.doc],
               Respond(r, 200, "Answer unaccepted successfully"))

\* ------------------------------------------- PATCH /api/answers/:id/unaccept
unacceptStep(db, r) ==
    CASE r.pc = "findAnswer" ->
           LET answer == findById(db.answers, r.id) IN
           IF answer = NullDoc \/ answer.cur.isDeleted
           THEN Out(db, Respond(r, 404, "Answer not found"))
           ELSE Out(db, [r EXCEPT !.answer = answer, !.pc = "findQuestion"])
      [] r.pc = "findQuestion" ->
           LET question == findById(db.questions, r.answer.cur.questionId) IN
           IF question = NullDoc \/ question.cur.isDeleted
           THEN Out(db, Respond(r, 404, "Question not found"))
           ELSE IF question.cur.askedBy # r.user
           THEN Out(db, Respond(r, 403, "Only the question owner can unaccept answers"))
           ELSE IF ~r.answer.cur.isAccepted
           THEN Out(db, Respond(r, 400, "This answer is not currently accepted"))
           ELSE Out(db, [r EXCEPT !.question = question, !.pc = "saveAnswer"])
      [] r.pc = "saveAnswer" ->
           LET m == unacceptInMemory(r.answer)
               res == save(db.answers[r.id], m) IN
           Out([db EXCEPT !.answers[r.id] = res.doc],
               [r EXCEPT !.answer = Saved(m), !.pc = "saveQuestion"])
      [] r.pc = "saveQuestion" ->
           LET qid == r.answer.cur.questionId
               m == [r.question EXCEPT !.cur.acceptedAnswer = NULL]
               res == save(db.questions[qid], m) IN
           Out([db EXCEPT !.questions[qid] = res.doc],
               Respond(r, 200, "Answer unaccepted successfully"))

\* ------------------------------------------------------ PUT /api/answers/:id
\* populate('answeredBy') after the save reads a user and changes nothing.
editAnswerStep(db, r) ==
    CASE r.pc = "findAnswer" ->
           LET answer == findById(db.answers, r.id) IN
           IF answer = NullDoc \/ answer.cur.isDeleted
           THEN Out(db, Respond(r, 404, "Answer not found"))
           ELSE IF answer.cur.answeredBy # r.user /\ r.role # "admin"
           THEN Out(db, Respond(r, 403, "Not authorized to edit this answer"))
           ELSE Out(db, [r EXCEPT !.answer = [answer EXCEPT !.cur.content = r.content],
                                  !.pc = "saveAnswer"])
      [] r.pc = "saveAnswer" ->
           LET res == save(db.answers[r.id], r.answer) IN
           Out([db EXCEPT !.answers[r.id] = res.doc],
               Respond(r, 200, "Answer updated successfully"))

\* --------------------------------------------------- DELETE /api/answers/:id
deleteAnswerStep(db, r) ==
    CASE r.pc = "findAnswer" ->
           LET answer == findById(db.answers, r.id) IN
           IF answer = NullDoc \/ answer.cur.isDeleted
           THEN Out(db, Respond(r, 404, "Answer not found"))
           ELSE IF answer.cur.answeredBy # r.user /\ r.role # "admin"
           THEN Out(db, Respond(r, 403, "Not authorized to delete this answer"))
           ELSE IF answer.cur.isAccepted
           THEN Out(db, Respond(r, 400, "Cannot delete an accepted answer"))
           ELSE Out(db, [r EXCEPT !.answer = [answer EXCEPT !.cur.isDeleted = TRUE],
                                  !.pc = "saveAnswer"])
      [] r.pc = "saveAnswer" ->
           LET res == save(db.answers[r.id], r.answer) IN
           Out([db EXCEPT !.answers[r.id] = res.doc],
               Respond(r, 200, "Answer deleted successfully"))

\* ------------------------------------------------- DELETE /api/questions/:id
deleteQuestionStep(db, r) ==
    CASE r.pc = "findQuestion" ->
           LET question == findById(db.questions, r.id) IN
           IF question = NullDoc \/ question.cur.isDeleted
           THEN Out(db, Respond(r, 404, "Question not found"))
           ELSE IF question.cur.askedBy # r.user /\ r.role # "admin"
           THEN Out(db, Respond(r, 403, "Not authorized to delete this question"))
           ELSE Out(db, [r EXCEPT !.question = [question EXCEPT !.cur.isDeleted = TRUE],
                                  !.pc = "saveQuestion"])
      [] r.pc = "saveQuestion" ->
           LET res == save(db.questions[r.id], r.question) IN
           Out([db EXCEPT !.questions[r.id] = res.doc],
               Respond(r, 200, "Question deleted successfully"))

\* NotificationService.notifyQuestionAnswered
notifyQuestionAnswered(db, questionId, answerId, questionOwnerId, answerAuthorId) ==
    IF questionOwnerId = answerAuthorId
    THEN db
    ELSE createNotification(db,
           [recipientId |-> questionOwnerId, senderId |-> answerAuthorId,
            type |-> "answer", message |-> "answered",
            questionId |-> questionId, answerId |-> answerId, read |-> FALSE])

\* The _id of the next new Answer: the first id not in the collection.
NewId(coll) == CHOOSE id \in PostedIds \ DOMAIN coll : TRUE

\* --------------------------------------------- POST /api/questions/:id/answers
\* r.answer holds the new Answer document between its construction and the
\* response; HasNewId is the arrival guard of the action (ids are finite
\* here).
HasNewId(db) == PostedIds \ DOMAIN db.answers # {}

postAnswerStep(db, r) ==
    CASE r.pc = "findQuestion" ->
           LET question == findById(db.questions, r.id) IN
           IF question = NullDoc \/ question.cur.isDeleted
           THEN Out(db, Respond(r, 404, "Question not found"))
           ELSE IF question.cur.isClosed
           THEN Out(db, Respond(r, 400, "This question is closed for answers"))
           ELSE Out(db, [r EXCEPT !.question = question,
                                  !.answer = Loaded([NewAnswer(r.id, r.user)
                                                       EXCEPT !.content = r.content]),
                                  !.pc = "saveAnswer"])
      [] r.pc = "saveAnswer" ->
           LET id == NewId(db.answers) IN
           Out([db EXCEPT !.answers =
                  [a \in DOMAIN @ \cup {id} |->
                     IF a = id THEN r.answer.cur ELSE @[a]]],
               [r EXCEPT !.newId = id, !.pc = "notify"])
      [] r.pc = "notify" ->
           Out(IF r.notifFails THEN db
               ELSE notifyQuestionAnswered(db, r.id, r.newId,
                                           r.question.cur.askedBy, r.user),
               Respond(r, 201, "Answer posted successfully"))

\* ------------------------------------------------- GET /api/questions/:id
\* incrementViews as it would be if a view counted as a vote as well.
incrementViews_CountsAsVote(m) ==
    [m EXCEPT !.cur.views = @ + 1, !.cur.votes = @ + 1]

\* questionSchema.methods.incrementViews, up to its save().
incrementViews(m) == [m EXCEPT !.cur.views = @ + 1]

\* The answers are read with Answer.find(...).lean() after the save; userVote
\* and the deleted voteHistory are properties of the response only.
viewQuestionStep(db, r) ==
    CASE r.pc = "findQuestion" ->
           LET question == findById(db.questions, r.id) IN
           IF question = NullDoc \/ question.cur.isDeleted
           THEN Out(db, Respond(r, 404, "Question not found"))
           ELSE Out(db, [r EXCEPT !.question = incrementViews(question),
                                  !.pc = "saveQuestion"])
      [] r.pc = "saveQuestion" ->
           LET res == save(db.questions[r.id], r.question) IN
           Out([db EXCEPT !.questions[r.id] = res.doc],
               [r EXCEPT !.question = Saved(r.question), !.pc = "findAnswers"])
      [] r.pc = "findAnswers" ->
           Out(db, Respond(r, 200, ""))

\* --------------------------------------------------- POST /api/questions
\* The _id of the next new Question; HasNewQuestionId is the arrival guard
\* of the action (ids are finite here).
NewQuestionId(coll) == CHOOSE id \in PostedQuestionIds \ DOMAIN coll : TRUE

HasNewQuestionId(db) == PostedQuestionIds \ DOMAIN db.questions # {}

postQuestionStep(db, r) ==
    CASE r.pc = "saveQuestion" ->
           LET id == NewQuestionId(db.questions)
               question == [NewQuestion(r.user) EXCEPT !.description = r.content] IN
           Out([db EXCEPT !.questions =
                  [q \in DOMAIN @ \cup {id} |->
                     IF q = id THEN question ELSE @[q]]],
               [r EXCEPT !.newId = id, !.pc = "populate"])
      [] r.pc = "populate" ->
           Out(db, Respond(r, 201, "Question created successfully"))

\* ---------------------------------------------------- PUT /api/questions/:id
editQuestionStep(db, r) ==
    CASE r.pc = "findQuestion" ->
           LET question == findById(db.questions, r.id) IN
           IF question = NullDoc \/ question.cur.isDeleted
           THEN Out(db, Respond(r, 404, "Question not found"))
           ELSE IF question.cur.askedBy # r.user /\ r.role # "admin"
           THEN Out(db, Respond(r, 403, "Not authorized to edit this question"))
           ELSE Out(db, [r EXCEPT !.question =
                                    IF r.content # 0
                                    THEN [question EXCEPT !.cur.description = r.content]
                                    ELSE question,
                                  !.pc = "saveQuestion"])
      [] r.pc = "saveQuestion" ->
           LET res == save(db.questions[r.id], r.question) IN
           Out([db EXCEPT !.questions[r.id] = res.doc],
               [r EXCEPT !.question = Saved(r.question), !.pc = "populate"])
      [] r.pc = "populate" ->
           Out(db, Respond(r, 200, "Question updated successfully"))

\* ------------------------------------------------- NotificationService
\* The positions of the notifications that match {_id, recipientId}.
Matching(notifs, notificationId, userId) ==
    {i \in 1..Len(notifs) : /\ notifs[i]._id = notificationId
                            /\ notifs[i].recipientId = userId}

\* markAsRead as it would be if its filter had no recipientId.
markAsRead_AnyRecipient(db, notificationId, userId) ==
    LET hits == {i \in 1..Len(db.notifications) :
                   db.notifications[i]._id = notificationId} IN
    IF hits = {} THEN [db |-> db, found |-> FALSE]
    ELSE LET i == CHOOSE j \in hits : TRUE
             n == [db.notifications[i] EXCEPT !.read = TRUE] IN
         [db |-> [db EXCEPT !.notifications[i] = n], found |-> TRUE]

\* findOneAndUpdate({_id, recipientId}, {read: true}, {new: true}); found
\* tells whether it returns a notification or null.
markAsRead(db, notificationId, userId) ==
    LET hits == Matching(db.notifications, notificationId, userId) IN
    IF hits = {} THEN [db |-> db, found |-> FALSE]
    ELSE LET i == CHOOSE j \in hits : TRUE
             n == [db.notifications[i] EXCEPT !.read = TRUE] IN
         [db |-> [db EXCEPT !.notifications[i] = n], found |-> TRUE]

\* updateMany({recipientId, read: false}, {read: true})
markAllAsRead(db, userId) ==
    [db EXCEPT !.notifications =
       [i \in 1..Len(@) |->
          IF @[i].recipientId = userId /\ ~@[i].read
          THEN [@[i] EXCEPT !.read = TRUE] ELSE @[i]]]

\* findOneAndDelete({_id, recipientId}); found tells whether it returns the
\* deleted notification or null.
deleteNotification(db, notificationId, userId) ==
    LET hits == Matching(db.notifications, notificationId, userId) IN
    IF hits = {} THEN [db |-> db, found |-> FALSE]
    ELSE LET i == CHOOSE j \in hits : TRUE IN
         [db |-> [db EXCEPT !.notifications =
                    SubSeq(@, 1, i - 1) \o SubSeq(@, i + 1, Len(@))],
          found |-> TRUE]

RECURSIVE Reverse(_)
Reverse(s) == IF s = <<>> THEN <<>> ELSE Reverse(Tail(s)) \o <<Head(s)>>

\* find({recipientId}).sort({createdAt: -1}).skip(0).limit(limit): the
\* user's notifications, newest first (the collection is kept in the order
\* of creation).
getNotifications(db, userId, limit) ==
    LET own(n) == n.recipientId = userId
        found == Reverse(SelectSeq(db.notifications, own)) IN
    SubSeq(found, 1, IF Len(found) < limit THEN Len(found) ELSE limit)

\* ------------------------------------------------ /api/notifications routes
\* GET /, PATCH /:id/read, PATCH /read-all and DELETE /:id: one await each,
\* on the service call.
notificationStep(db, r) ==
    CASE r.kind = "getNotifications" ->
           Out(db, [Respond(r, 200, "")
                      EXCEPT !.body = getNotifications(db, r.user, PageLimit)])
      [] r.kind = "markAsRead" ->
           LET res == markAsRead(db, r.notificationId, r.user) IN
           IF ~res.found
           THEN Out(db, Respond(r, 404, "Notification not found"))
           ELSE Out(res.db, Respond(r, 200, "Notification marked as read"))
      [] r.kind = "markAllAsRead" ->
           Out(markAllAsRead(db, r.user),
               Respond(r, 200, "All notifications marked as read"))
      [] r.kind = "deleteNotification" ->
           LET res == deleteNotification(db, r.notificationId, r.user) IN
           IF ~res.found
           THEN Out(db, Respond(r, 404, "Notification not found"))
           ELSE Out(res.db, Respond(r, 200, "Notification deleted successfully"))

\* ------------------------------------------------------------- dispatch
HandlerStep(db, r) ==
    CASE r.kind = "voteAnswer" -> voteAnswerStep(db, r)
      [] r.kind = "voteQuestion" -> voteQuestionStep(db, r)
      [] r.kind = "accept" -> acceptStep(db, r)
      [] r.kind = "unaccept" -> unacceptStep(db, r)
      [] r.kind = "editAnswer" -> editAnswerStep(db, r)
      [] r.kind = "deleteAnswer" -> deleteAnswerStep(db, r)
      [] r.kind = "deleteQuestion" -> deleteQuestionStep(db, r)
      [] r.kind = "postAnswer" -> postAnswerStep(db, r)
      [] r.kind = "viewQuestion" -> viewQuestionStep(db, r)
      [] r.kind = "postQuestion" -> postQuestionStep(db, r)
      [] r.kind = "editQuestion" -> editQuestionStep(db, r)
      [] r.kind \in NotificationKinds -> notificationStep(db, r)

\* A request run from its first await to its response with nothing in
\* between: what the server does when requests do not overlap.
RECURSIVE RunToEnd(_, _)
RunToEnd(db, r) ==
    IF r.pc = "done" THEN Out(db, r)
    ELSE LET o == HandlerStep(db, r) IN RunToEnd(o.db, o.req)

Handle(db, r) == RunToEnd(db, Begin(r))

\* ------------------------------------------------------------------ Init
\* One question asked by user 1 with two answers, by users 2 and 3, all
\* fresh from their schemas' defaults; nothing in flight.
Slots == 1..MaxInFlight

\* The NotificationProvider of a page nobody is logged in to: useState([])
\* and useState(0).
NoClient == [user |-> 0, notifications |-> <<>>, unreadCount |-> 0]

Init ==
    /\ questions = [q \in QuestionIds |-> NewQuestion(1)]
    /\ answers = [a \in AnswerIds |->
                    NewAnswer("q1", IF a = "a1" THEN 2 ELSE 3)]
    /\ notifications = <<>>
    /\ requests = [s \in Slots |-> Idle]
    /\ served = 0
    /\ before = [questions |-> questions, answers |-> answers]
    /\ client = NoClient

\* --------------------------------------------- requests served one by one
Serve(r) ==
    /\ served < MaxRequests
    /\ LET o == Handle(DB, r) IN
         /\ questions' = o.db.questions
         /\ answers' = o.db.answers
         /\ notifications' = o.db.notifications
         /\ requests' = [requests EXCEPT ![1] = o.req]
    /\ served' = served + 1
    /\ before' = [questions |-> questions, answers |-> answers]
    /\ UNCHANGED client

VoteQuestion ==
    \E id \in QuestionIds \cup {UnknownId}, u \in Users, v \in VoteInputs :
      Serve(NewRequest("voteQuestion", id, u, v, FALSE))

VoteAnswer ==
    \E id \in AnswerIds \cup {UnknownId}, u \in Users, v \in VoteInputs :
      Serve(NewRequest("voteAnswer", id, u, v, FALSE))

AcceptAnswer ==
    \E id \in AnswerIds \cup {UnknownId}, u \in Users :
      Serve(NewRequest("accept", id, u, NULL, FALSE))

UnacceptAnswer ==
    \E id \in AnswerIds \cup {UnknownId}, u \in Users :
      Serve(NewRequest("unaccept", id, u, NULL, FALSE))

Next == VoteQuestion \/ VoteAnswer \/ AcceptAnswer \/ UnacceptAnswer

Spec == Init /\ [][Next]_vars

\* Votes only, one at a time.
NextLedger == VoteQuestion \/ VoteAnswer

SpecLedger == Init /\ [][NextLedger]_vars

\* Accept and unaccept only, one at a time.
NextAcceptance == AcceptAnswer \/ UnacceptAnswer

SpecAcceptance == Init /\ [][NextAcceptance]_vars

\* ------------------------------------------- votes on one item, in a row
\* Up to MaxScenario votes served one at a time, all for the item the first
\* of them addresses.
SameItem(kind, id) ==
    served = 0 \/ (requests[1].kind = kind /\ requests[1].id = id)

ServeVote(r) ==
    /\ served < MaxScenario
    /\ SameItem(r.kind, r.id)
    /\ LET o == Handle(DB, r) IN
         /\ questions' = o.db.questions
         /\ answers' = o.db.answers
         /\ notifications' = o.db.notifications
         /\ requests' = [requests EXCEPT ![1] = o.req]
    /\ served' = served + 1
    /\ before' = [questions |-> questions, answers |-> answers]
    /\ UNCHANGED client

VoteQuestionAgain ==
    \E id \in QuestionIds, u \in Users, v \in VoteTypes :
      ServeVote(NewRequest("voteQuestion", id, u, v, FALSE))

VoteAnswerAgain ==
    \E id \in AnswerIds, u \in Users, v \in VoteTypes :
      ServeVote(NewRequest("voteAnswer", id, u, v, FALSE))

NextScenario == VoteQuestionAgain \/ VoteAnswerAgain

SpecScenario == Init /\ [][NextScenario]_vars

\* ------------------------------ all the routes that touch an answer's life
\* Requests served one at a time; ids are drawn from the answers that exist
\* by then, and one that does not.
KnownAnswers == DOMAIN answers \cup {UnknownId}

CastVote ==
    \/ \E id \in QuestionIds, u \in Users, v \in VoteTypes :
         Serve(NewRequest("voteQuestion", id, u, v, FALSE))
    \/ \E id \in DOMAIN answers, u \in Users, v \in VoteTypes :
         Serve(NewRequest("voteAnswer", id, u, v, FALSE))

Accept ==
    \E id \in KnownAnswers, u \in Users :
      Serve(NewRequest("accept", id, u, NULL, FALSE))

Unaccept ==
    \E id \in KnownAnswers, u \in Users :
      Serve(NewRequest("unaccept", id, u, NULL, FALSE))

EditAnswer ==
    \E id \in KnownAnswers, u \in Users, role \in Roles, c \in ContentInputs :
      Serve(WithBody(NewRequest("editAnswer", id, u, NULL, FALSE), role, c))

DeleteAnswer ==
    \E id \in KnownAnswers, u \in Users, role \in Roles :
      Serve(WithBody(NewRequest("deleteAnswer", id, u, NULL, FALSE), role, 0))

DeleteQuestion ==
    \E id \in QuestionIds \cup {UnknownId}, u \in Users, role \in Roles :
      Serve(WithBody(NewRequest("deleteQuestion", id, u, NULL, FALSE), role, 0))

PostAnswer ==
    \E id \in QuestionIds \cup {UnknownId}, u \in Users, c \in ContentInputs :
      /\ HasNewId(DB)
      /\ Serve(WithBody(NewRequest("postAnswer", id, u, NULL, FALSE), "user", c))

NextLifecycle ==
    \/ served < MaxWide /\ CastVote
    \/ served < MaxWide /\ Accept
    \/ served < MaxWide /\ Unaccept
    \/ served < MaxWide /\ EditAnswer
    \/ served < MaxWide /\ DeleteAnswer
    \/ served < MaxWide /\ DeleteQuestion
    \/ served < MaxWide /\ PostAnswer

SpecLifecycle == Init /\ [][NextLifecycle]_vars

\* Every route that creates, reads or changes a question or an answer, one
\* request at a time; edits and soft deletes are asked for by the item's
\* author.
ViewQuestion ==
    \E id \in DOMAIN questions \cup {UnknownId} :
      Serve(NewRequest("viewQuestion", id, 0, NULL, FALSE))

PostQuestion ==
    \E u \in Users, c \in DescriptionInputs :
      /\ HasNewQuestionId(DB)
      /\ Serve(WithBody(NewRequest("postQuestion", NULL, u, NULL, FALSE), "user", c))

EditQuestion ==
    \E id \in DOMAIN questions, c \in DescriptionInputs :
      Serve(WithBody(NewRequest("editQuestion", id, questions[id].askedBy,
                                NULL, FALSE), "user", c))

EditOwnAnswer ==
    \E id \in DOMAIN answers, c \in ContentInputs :
      Serve(WithBody(NewRequest("editAnswer", id, answers[id].answeredBy,
                                NULL, FALSE), "user", c))

DeleteOwn ==
    \/ \E id \in DOMAIN answers :
         Serve(NewRequest("deleteAnswer", id, answers[id].answeredBy, NULL, FALSE))
    \/ \E id \in DOMAIN questions :
         Serve(NewRequest("deleteQuestion", id, questions[id].askedBy, NULL, FALSE))

NextFields ==
    \/ served < MaxWide /\ CastVote
    \/ served < MaxWide /\ Accept
    \/ served < MaxWide /\ Unaccept
    \/ served < MaxWide /\ EditOwnAnswer
    \/ served < MaxWide /\ DeleteOwn
    \/ served < MaxWide /\ PostAnswer
    \/ served < MaxWide /\ ViewQuestion
    \/ served < MaxWide /\ PostQuestion
    \/ served < MaxWide /\ EditQuestion

SpecFields == Init /\ [][NextFields]_vars

\* Votes and accepts, one at a time, whose notification is created or
\* throws.
VoteNotifying ==
    \/ \E id \in QuestionIds, u \in Users, v \in VoteTypes, f \in BOOLEAN :
         Serve(NewRequest("voteQuestion", id, u, v, f))
    \/ \E id \in AnswerIds, u \in Users, v \in VoteTypes, f \in BOOLEAN :
         Serve(NewRequest("voteAnswer", id, u, v, f))

AcceptNotifying ==
    \E id \in AnswerIds, u \in Users, f \in BOOLEAN :
      Serve(NewRequest("accept", id, u, NULL, f))

NextNotify ==
    \/ served < MaxWide /\ VoteNotifying
    \/ served < MaxWide /\ AcceptNotifying

SpecNotify == Init /\ [][NextNotify]_vars

\* Accept, unaccept and the two soft deletes, one at a time.
NextDeletion == Accept \/ Unaccept \/ DeleteAnswer \/ DeleteQuestion

SpecDeletion == Init /\ [][NextDeletion]_vars

\* ------------------------------------------------- overlapping requests
\* A request arrives on the first free slot and runs to its first await.
Arrive(s, r) ==
    /\ served < MaxOverlapped
    /\ requests[s].pc \in {"idle", "done"}
    /\ \A t \in 1..(s - 1) : requests[t].pc \notin {"idle", "done"}
    /\ requests' = [requests EXCEPT ![s] = Begin(r)]
    /\ served' = served + 1
    /\ UNCHANGED <<questions, answers, notifications, before, client>>

\* The database performs the operation a request waits for and the handler
\* runs on to its next await.
Step(s) ==
    /\ requests[s].pc \notin {"idle", "done"}
    /\ LET o == HandlerStep(DB, requests[s]) IN
         /\ questions' = o.db.questions
         /\ answers' = o.db.answers
         /\ notifications' = o.db.notifications
         /\ requests' = [requests EXCEPT ![s] = o.req]
    /\ UNCHANGED <<served, before, client>>

ArriveVoteQuestion ==
    \E s \in Slots, id \in QuestionIds, u \in Users, v \in VoteTypes :
      Arrive(s, NewRequest("voteQuestion", id, u, v, FALSE))

ArriveVoteAnswer ==
    \E s \in Slots, id \in AnswerIds, u \in Users, v \in VoteTypes :
      Arrive(s, NewRequest("voteAnswer", id, u, v, FALSE))

ArriveAccept ==
    \E s \in Slots, id \in AnswerIds, u \in Users :
      Arrive(s, NewRequest("accept", id, u, NULL, FALSE))

ArriveUnaccept ==
    \E s \in Slots, id \in AnswerIds, u \in Users :
      Arrive(s, NewRequest("unaccept", id, u, NULL, FALSE))

Proceed == \E s \in Slots : Step(s)

NextVotes == ArriveVoteQuestion \/ ArriveVoteAnswer \/ Proceed

SpecVotes == Init /\ [][NextVotes]_vars

NextAccepts == ArriveAccept \/ ArriveUnaccept \/ Proceed

SpecAccepts == Init /\ [][NextAccepts]_vars

\* Accept requests of the question's owner and of somebody else, for
\* answers that exist and for one that does not; requests may overlap.
ArriveAcceptAny ==
    \E s \in Slots, id \in AnswerIds \cup {UnknownId}, u \in {1, 2} :
      Arrive(s, NewRequest("accept", id, u, NULL, FALSE))

NextAcceptSteps == ArriveAcceptAny \/ Proceed

SpecAcceptSteps == Init /\ [][NextAcceptSteps]_vars

\* Votes of the two answerers, for items that exist and for ids that name
\* none, and the two soft deletes, asked for by the item's author; requests
\* may overlap.
ArriveVoteAny ==
    \/ \E s \in Slots, id \in QuestionIds \cup {UnknownId}, u \in {2, 3},
          v \in VoteTypes :
         served < MaxWide /\ Arrive(s, NewRequest("voteQuestion", id, u, v, FALSE))
    \/ \E s \in Slots, id \in AnswerIds \cup {UnknownId}, u \in {2, 3},
          v \in VoteTypes :
         served < MaxWide /\ Arrive(s, NewRequest("voteAnswer", id, u, v, FALSE))

ArriveDelete ==
    \/ \E s \in Slots, id \in AnswerIds :
         /\ served < MaxWide
         /\ Arrive(s, NewRequest("deleteAnswer", id, answers[id].answeredBy,
                                 NULL, FALSE))
    \/ \E s \in Slots, id \in QuestionIds :
         /\ served < MaxWide
         /\ Arrive(s, NewRequest("deleteQuestion", id, questions[id].askedBy,
                                 NULL, FALSE))

NextVoteDelete == ArriveVoteAny \/ ArriveDelete \/ Proceed

SpecVoteDelete == Init /\ [][NextVoteDelete]_vars

\* ----------------------------------------------------------- notifications
\* The store after four votes, each of which notified the item's author:
\* user 1 has two notifications, users 2 and 3 have one each.
Seeds ==
    <<NewRequest("voteQuestion", "q1", 2, "up", FALSE),
      NewRequest("voteQuestion", "q1", 3, "down", FALSE),
      NewRequest("voteAnswer", "a1", 1, "up", FALSE),
      NewRequest("voteAnswer", "a2", 1, "up", FALSE)>>

RECURSIVE HandleAll(_, _)
HandleAll(db, reqs) ==
    IF reqs = <<>> THEN db
    ELSE HandleAll(Handle(db, Head(reqs)).db, Tail(reqs))

Notified ==
    HandleAll([questions |-> [q \in QuestionIds |-> NewQuestion(1)],
               answers |-> [a \in AnswerIds |->
                              NewAnswer("q1", IF a = "a1" THEN 2 ELSE 3)],
               notifications |-> <<>>], Seeds)

\* The _ids a request names: those of the notifications and one of none.
NotificationIds == {0} \cup DOMAIN Seeds

\* Some user is logged in to the front-end, which has not fetched yet.
InitNotified ==
    /\ questions = Notified.questions
    /\ answers = Notified.answers
    /\ notifications = Notified.notifications
    /\ requests = [s \in Slots |-> Idle]
    /\ served = 0
    /\ before = [questions |-> questions, answers |-> answers]
    /\ \E u \in Users : client = [NoClient EXCEPT !.user = u]

\* The notification routes, one request at a time.
GetNotificationsRoute ==
    \E u \in Users : Serve(OfNotification("getNotifications", 0, u))

MarkAsReadRoute ==
    \E id \in NotificationIds, u \in Users :
      Serve(OfNotification("markAsRead", id, u))

MarkAllAsReadRoute ==
    \E u \in Users : Serve(OfNotification("markAllAsRead", 0, u))

DeleteNotificationRoute ==
    \E id \in NotificationIds, u \in Users :
      Serve(OfNotification("deleteNotification", id, u))

NextNotifications ==
    \/ GetNotificationsRoute
    \/ MarkAsReadRoute
    \/ MarkAllAsReadRoute
    \/ DeleteNotificationRoute

SpecNotifications == InitNotified /\ [][NextNotifications]_vars

\* ------------------------------------------- front-end NotificationProvider
\* A call of the provider: the request is served by the back end, and the
\* provider's state changes only if the response is a success (axios throws
\* on any other status and the catch block only logs).
Answered(o) ==
    /\ served < MaxRequests
    /\ questions' = o.db.questions
    /\ answers' = o.db.answers
    /\ notifications' = o.db.notifications
    /\ requests' = [requests EXCEPT ![1] = o.req]
    /\ served' = served + 1
    /\ before' = [questions |-> questions, answers |-> answers]

Unread(notifs) == {i \in 1..Len(notifs) : ~notifs[i].read}

ProviderFetchNotifications ==
    LET o == Handle(DB, OfNotification("getNotifications", 0, client.user)) IN
    /\ Answered(o)
    /\ client' = IF o.req.status = 200
                 THEN [client EXCEPT !.notifications = o.req.body,
                                     !.unreadCount = Cardinality(Unread(o.req.body))]
                 ELSE client

ProviderMarkAsRead ==
    \E id \in NotificationIds :
      LET o == Handle(DB, OfNotification("markAsRead", id, client.user)) IN
      /\ Answered(o)
      /\ client' = IF o.req.status = 200
                   THEN [client EXCEPT
                           !.notifications =
                              [i \in 1..Len(@) |->
                                 IF @[i]._id = id THEN [@[i] EXCEPT !.read = TRUE]
                                 ELSE @[i]],
                           !.unreadCount = IF @ - 1 > 0 THEN @ - 1 ELSE 0]
                   ELSE client

ProviderMarkAllAsRead ==
    LET o == Handle(DB, OfNotification("markAllAsRead", 0, client.user)) IN
    /\ Answered(o)
    /\ client' = IF o.req.status = 200
                 THEN [client EXCEPT
                         !.notifications =
                            [i \in 1..Len(@) |-> [@[i] EXCEPT !.read = TRUE]],
                         !.unreadCount = 0]
                 ELSE client

NextProvider ==
    ProviderFetchNotifications \/ ProviderMarkAsRead \/ ProviderMarkAllAsRead

SpecProvider == InitNotified /\ [][NextProvider]_vars

\* ------------------------------------------------------- two questions
\* A second question, asked by user 2, with one answer by user 3, next to
\* the first question and its two answers; votes of user 1 and the accept
\* and unaccept requests of each question's owner may overlap.
InitTwoQuestions ==
    /\ questions = [q \in {"q1", "q2"} |-> NewQuestion(IF q = "q1" THEN 1 ELSE 2)]
    /\ answers = [a \in {"a1", "a2", "b1"} |->
                    IF a = "b1" THEN NewAnswer("q2", 3)
                    ELSE NewAnswer("q1", IF a = "a1" THEN 2 ELSE 3)]
    /\ notifications = <<>>
    /\ requests = [s \in Slots |-> Idle]
    /\ served = 0
    /\ before = [questions |-> questions, answers |-> answers]
    /\ client = NoClient

ArriveVoteStored ==
    \/ \E s \in Slots, id \in DOMAIN questions, u \in {1}, v \in VoteTypes :
         served < MaxWide /\ Arrive(s, NewRequest("voteQuestion", id, u, v, FALSE))
    \/ \E s \in Slots, id \in DOMAIN answers, u \in {1}, v \in VoteTypes :
         served < MaxWide /\ Arrive(s, NewRequest("voteAnswer", id, u, v, FALSE))

ArriveOwner ==
    \/ \E s \in Slots, id \in DOMAIN answers :
         /\ served < MaxWide
         /\ Arrive(s, NewRequest("accept", id,
                                 questions[answers[id].questionId].askedBy,
                                 NULL, FALSE))
    \/ \E s \in Slots, id \in DOMAIN answers :
         /\ served < MaxWide
         /\ Arrive(s, NewRequest("unaccept", id,
                                 questions[answers[id].questionId].askedBy,
                                 NULL, FALSE))

NextTwoQuestions == ArriveVoteStored \/ ArriveOwner \/ Proceed

SpecTwoQuestions == InitTwoQuestions /\ [][NextTwoQuestions]_vars

\* ------------------------------- overlapping requests that load together
\* The schedules in which overlapping requests all finish their findById
\* calls before any of them saves: a request arrives only while the others
\* in flight are still loading, and saves only when none is.
LoadPcs == {"findAnswer", "findQuestion", "findPrevious"}

InFlight(r) == r.pc \notin {"idle", "done"}

Loading(r) == r.pc \in LoadPcs

ArriveTogether(s, r) ==
    /\ \A t \in Slots : InFlight(requests[t]) => Loading(requests[t])
    /\ Arrive(s, r)

Read == \E s \in Slots : Loading(requests[s]) /\ Step(s)

Write ==
    \E s \in Slots :
      /\ InFlight(requests[s])
      /\ \A t \in Slots : ~Loading(requests[t])
      /\ Step(s)

NextVoteRace ==
    \/ \E s \in Slots, id \in QuestionIds, u \in Users, v \in VoteTypes :
         ArriveTogether(s, NewRequest("voteQuestion", id, u, v, FALSE))
    \/ \E s \in Slots, id \in AnswerIds, u \in Users, v \in VoteTypes :
         ArriveTogether(s, NewRequest("voteAnswer", id, u, v, FALSE))
    \/ Read
    \/ Write

SpecVoteRace == Init /\ [][NextVoteRace]_vars

NextAcceptRace ==
    \/ \E s \in Slots, id \in AnswerIds, u \in Users :
         ArriveTogether(s, NewRequest("accept", id, u, NULL, FALSE))
    \/ Read
    \/ Write

SpecAcceptRace == Init /\ [][NextAcceptRace]_vars

\* ------------------------------------- requests that stop before their end
\* One request at a time, await by await; a request in flight may stop at
\* any await (the awaited call throws and the catch block answers 500, or
\* the process dies): what it has written stays, the rest is not written.
Start(r) ==
    /\ served < MaxRequests
    /\ \A s \in Slots : ~InFlight(requests[s])
    /\ requests' = [s \in Slots |-> IF s = 1 THEN Begin(r) ELSE Idle]
    /\ served' = served + 1
    /\ before' = [questions |-> questions, answers |-> answers]
    /\ UNCHANGED <<questions, answers, notifications, client>>

StartAccept ==
    \E id \in AnswerIds \cup {UnknownId}, u \in {1, 2} :
      Start(NewRequest("accept", id, u, NULL, FALSE))

StartUnaccept ==
    \E id \in AnswerIds \cup {UnknownId}, u \in {1, 2} :
      Start(NewRequest("unaccept", id, u, NULL, FALSE))

Stop ==
    /\ InFlight(requests[1])
    /\ requests' = [requests EXCEPT ![1] = Respond(@, 500, "Server error")]
    /\ UNCHANGED <<questions, answers, notifications, served, before, client>>

NextAcceptStops == StartAccept \/ StartUnaccept \/ Step(1) \/ Stop

SpecAcceptStops == Init /\ [][NextAcceptStops]_vars

\* ------------------------------ a vote and an acceptance that overlap
\* A request starts when nothing is in flight, and one more request joins
\* it while it is in flight: votes of user 1 on the answers and the accept
\* and unaccept requests of the question's owner.
Join(r) ==
    /\ served < MaxRequests
    /\ InFlight(requests[1])
    /\ requests[2].pc = "idle"
    /\ requests' = [requests EXCEPT ![2] = Begin(r)]
    /\ served' = served + 1
    /\ UNCHANGED <<questions, answers, notifications, before, client>>

StartVote ==
    \E id \in AnswerIds, v \in VoteTypes :
      Start(NewRequest("voteAnswer", id, 1, v, FALSE))

StartAcceptance ==
    \E id \in AnswerIds, kind \in {"accept", "unaccept"} :
      Start(NewRequest(kind, id, questions[answers[id].questionId].askedBy,
                       NULL, FALSE))

JoinVote ==
    \E id \in AnswerIds, v \in VoteTypes :
      Join(NewRequest("voteAnswer", id, 1, v, FALSE))

JoinAcceptance ==
    \E id \in AnswerIds, kind \in {"accept", "unaccept"} :
      Join(NewRequest(kind, id, questions[answers[id].questionId].askedBy,
                      NULL, FALSE))

NextVoteAccept ==
    StartVote \/ StartAcceptance \/ JoinVote \/ JoinAcceptance \/ Proceed

SpecVoteAccept == Init /\ [][NextVoteAccept]_vars

\* ======================================================================
\* Properties
\* ======================================================================

\* Every votable document of the store.
Items == {questions[q] : q \in DOMAIN questions} \cup
         {answers[a] : a \in DOMAIN answers}

\* +1 for 'up', -1 for 'down'
Direction(voteType) == IF voteType = "up" THEN 1 ELSE -1

CountOf(voteHistory, voteType) ==
    Cardinality({i \in 1..Len(voteHistory) : voteHistory[i].vote = voteType})

\* The sum of the directions of a ledger: ups minus downs.
LedgerSum(voteHistory) ==
    CountOf(voteHistory, "up") - CountOf(voteHistory, "down")

EntriesOf(voteHistory, userId) ==
    {i \in 1..Len(voteHistory) : voteHistory[i].user = userId}

\* The request served last (requests are served one by one on slot 1).
Last == requests[1]

\* The item a vote request addresses, in a given pair of collections.
Target(store, r) ==
    IF r.kind = "voteQuestion" THEN store.questions[r.id]
    ELSE store.answers[r.id]

Now == [questions |-> questions, answers |-> answers]

\* The request served last was a vote that was recorded.
LastVoteRecorded ==
    /\ Last.pc = "done"
    /\ Last.kind \in {"voteQuestion", "voteAnswer"}
    /\ Last.status = 200

\* C1: served one at a time, every item's stored score (votes) equals the
\* number of 'up' entries of its voteHistory minus the number of 'down'
\* entries.
C1_ScoreIsLedgerSum ==
    \A d \in Items : d.votes = LedgerSum(d.voteHistory)

\* C1 witness: a recorded vote has changed an existing entry of a ledger
\* that holds another voter's entry too.
C1_Witness ==
    /\ LastVoteRecorded
    /\ Len(Target(Now, Last).voteHistory) = 2
    /\ Len(Target(before, Last).voteHistory) = 2
    /\ Target(Now, Last).votes # Target(before, Last).votes

\* C2: served one at a time, no voter appears in more than one entry of an
\* item's voteHistory.
C2_OneEntryPerVoter ==
    \A d \in Items : \A u \in Users :
      Cardinality(EntriesOf(d.voteHistory, u)) <= 1

\* C2 witness: a voter who already had an entry, behind another voter's
\* entry, has voted again and still has one entry.
C2_Witness ==
    /\ LastVoteRecorded
    /\ EntriesOf(Target(before, Last).voteHistory, Last.user) = {2}
    /\ Cardinality(EntriesOf(Target(Now, Last).voteHistory, Last.user)) = 1

\* The answers of question q whose stored isAccepted is true.
AcceptedOf(q) ==
    {a \in DOMAIN answers : answers[a].questionId = q /\ answers[a].isAccepted}

\* C3: after every accept or unaccept request served one at a time, each
\* question has at most one answer with isAccepted = true, and its
\* acceptedAnswer is set exactly when there is one, and is that answer.
C3_SingleAcceptedMatchesPointer ==
    \A q \in DOMAIN questions :
      /\ Cardinality(AcceptedOf(q)) <= 1
      /\ (questions[q].acceptedAnswer # NULL) <=> (AcceptedOf(q) # {})
      /\ AcceptedOf(q) # {} => AcceptedOf(q) = {questions[q].acceptedAnswer}

\* Both slots hold an answered request and only two requests ever arrived:
\* the second arrived while the first was in flight.
TwoOverlappedDone ==
    /\ served = 2
    /\ requests[1].pc = "done" /\ requests[2].pc = "done"
    /\ requests[1].status = 200 /\ requests[2].status = 200

VoteKinds == {"voteQuestion", "voteAnswer"}

\* C4: when two votes of two different voters on the same item overlap,
\* the item's final votes equals the sum of the directions of its final
\* voteHistory.
C4_OverlappedVotesKeepScore ==
    ( /\ TwoOverlappedDone
      /\ requests[1].kind \in VoteKinds
      /\ requests[1].kind = requests[2].kind
      /\ requests[1].id = requests[2].id
      /\ requests[1].user # requests[2].user )
    => LET d == Target(Now, requests[1]) IN d.votes = LedgerSum(d.voteHistory)

\* C5: when two votes of the same voter on the same item overlap, both
\* loading the document before either saves, the voter ends with at most
\* one entry in the item's voteHistory.
C5_OverlappedSameVoterOneEntry ==
    ( /\ TwoOverlappedDone
      /\ requests[1].kind \in VoteKinds
      /\ requests[1].kind = requests[2].kind
      /\ requests[1].id = requests[2].id
      /\ requests[1].user = requests[2].user )
    => Cardinality(EntriesOf(Target(Now, requests[1]).voteHistory,
                             requests[1].user)) <= 1

\* C6: while one accept request is between two of its writes (no request
\* has ever overlapped another), the store never shows two accepted answers of the question,
\* nor an acceptedAnswer whose isAccepted is false.
C6_AcceptLooksAtomic ==
    ( \E s \in Slots :
        /\ requests[s].kind = "accept"
        /\ requests[s].pc \in {"saveAnswer", "saveQuestion"}
        /\ \A t \in Slots \ {s} : requests[t].pc = "idle" )
    => \A q \in DOMAIN questions :
         /\ Cardinality(AcceptedOf(q)) <= 1
         /\ questions[q].acceptedAnswer # NULL
              => answers[questions[q].acceptedAnswer].isAccepted

\* C7: when two accept requests of the owner for two different answers of
\* one question overlap, both loading the question before either writes,
\* exactly one of the two answers ends accepted and the question's
\* acceptedAnswer is that answer.
C7_OverlappedAcceptsLeaveOne ==
    ( /\ TwoOverlappedDone
      /\ requests[1].kind = "accept" /\ requests[2].kind = "accept"
      /\ requests[1].id # requests[2].id
      /\ answers[requests[1].id].questionId = answers[requests[2].id].questionId )
    => LET q == answers[requests[1].id].questionId IN
         /\ Cardinality(AcceptedOf(q) \cap {requests[1].id, requests[2].id}) = 1
         /\ AcceptedOf(q) = {questions[q].acceptedAnswer}

\* The questions and answers after the step.
NowNext == [questions |-> questions', answers |-> answers']

\* The request the step serves (one at a time, on slot 1).
Served == requests'[1]

\* The step serves a vote that is recorded.
VoteServed ==
    /\ served' = served + 1
    /\ Served.kind \in VoteKinds
    /\ Served.status = 200

\* The (voter, direction) pairs of a ledger.
Pairs(voteHistory) ==
    {<<voteHistory[i].user, voteHistory[i].vote>> : i \in 1..Len(voteHistory)}

\* The step of C8: a voter with no entry who casts the same direction twice in a row
\* leaves the item's score as it was before the first call and has no entry
\* afterwards; the other voters' entries are as before.
C8_SecondCall ==
    ( /\ LastVoteRecorded
      /\ EntriesOf(Target(before, Last).voteHistory, Last.user) = {}
      /\ VoteServed
      /\ Served.kind = Last.kind /\ Served.id = Last.id
      /\ Served.user = Last.user /\ Served.vote = Last.vote )
    => /\ Target(NowNext, Served).votes = Target(before, Last).votes
       /\ EntriesOf(Target(NowNext, Served).voteHistory, Served.user) = {}
       /\ Pairs(Target(NowNext, Served).voteHistory) =
            Pairs(Target(before, Last).voteHistory)

\* C8, over every step: castVote(v, d) by a voter without an entry, followed
\* at once by castVote(v, d), restores the score and removes v's entry.
C8_ToggleOffRestores == [][C8_SecondCall]_vars

\* C8 witness: after another voter's vote, a voter cast a direction and
\* then the same direction again.
C8_Witness ==
    /\ LastVoteRecorded
    /\ served = 3
    /\ Len(Target(before, Last).voteHistory) = 2
    /\ EntriesOf(Target(before, Last).voteHistory, Last.user) = {2}
    /\ Target(before, Last).voteHistory[2].vote = Last.vote
    /\ Len(Target(Now, Last).voteHistory) = 1

\* The step of C9: a vote against the voter's own existing entry moves the score by
\* exactly two in the new direction, and the voter keeps exactly one entry,
\* with the new direction.
C9_OppositeCall ==
    ( /\ VoteServed
      /\ \E i \in EntriesOf(Target(Now, Served).voteHistory, Served.user) :
           Target(Now, Served).voteHistory[i].vote # Served.vote )
    => LET pre == Target(Now, Served)
           post == Target(NowNext, Served)
           mine == EntriesOf(post.voteHistory, Served.user) IN
         /\ post.votes = pre.votes + 2 * Direction(Served.vote)
         /\ Cardinality(mine) = 1
         /\ \A i \in mine : post.voteHistory[i].vote = Served.vote

\* C9, over every step: castVote(v, opposite of v's entry) changes the score
\* by exactly 2 in the new direction and replaces v's one entry.
C9_ChangeMovesScoreByTwo == [][C9_OppositeCall]_vars

\* C9 witness: a voter whose entry stood behind another voter's has changed
\* direction.
C9_Witness ==
    /\ LastVoteRecorded
    /\ EntriesOf(Target(before, Last).voteHistory, Last.user) = {2}
    /\ Target(before, Last).voteHistory[2].vote # Last.vote
    /\ Target(Now, Last).voteHistory[2].vote = Last.vote

\* The reference ledger: a map from voter to direction.
\* castVote: absent -> insert, same direction -> delete, opposite -> replace.
RefCast(L, v, d) ==
    IF v \notin DOMAIN L
    THEN [u \in DOMAIN L \cup {v} |-> IF u = v THEN d ELSE L[u]]
    ELSE IF L[v] = d
    THEN [u \in DOMAIN L \ {v} |-> L[u]]
    ELSE [L EXCEPT ![v] = d]

\* The reference score: the sum of the map's directions.
RefScore(L) ==
    Cardinality({u \in DOMAIN L : L[u] = "up"}) -
    Cardinality({u \in DOMAIN L : L[u] = "down"})

RefPairs(L) == {<<u, L[u]>> : u \in DOMAIN L}

\* The map an array ledger stands for (a voter's first entry).
AsMap(voteHistory) ==
    [u \in {voteHistory[i].user : i \in 1..Len(voteHistory)} |->
       voteHistory[findIndex(voteHistory, u)].vote]

\* The step of C10: every recorded vote takes the array ledger and the score to what
\* the reference map gives: the pairs of the array are the pairs of the map
\* before the call, and after it they are the pairs of RefCast of that map
\* and votes is its RefScore.
C10_VoteStep ==
    VoteServed
    => LET pre == Target(Now, Served)
           post == Target(NowNext, Served)
           ref == RefCast(AsMap(pre.voteHistory), Served.user, Served.vote) IN
         /\ Pairs(pre.voteHistory) = RefPairs(AsMap(pre.voteHistory))
         /\ pre.votes = RefScore(AsMap(pre.voteHistory))
         /\ Pairs(post.voteHistory) = RefPairs(ref)
         /\ post.votes = RefScore(ref)

\* C10, over every step: the array-based vote and the reference map agree
\* on the (voter, direction) pairs and on the score after each call.
C10_ArrayLedgerRefinesMap == [][C10_VoteStep]_vars

\* C10 witness: recorded votes have inserted, replaced and deleted entries
\* of one ledger in turn.
C10_Witness ==
    /\ LastVoteRecorded
    /\ served = 3
    /\ Len(Target(before, Last).voteHistory) = 1
    /\ Target(before, Last).voteHistory[1].user = Last.user
    /\ Target(before, Last).voteHistory[1].vote = Last.vote
    /\ Target(before, Last).votes = Direction(Last.vote)
    /\ Target(Now, Last).voteHistory = <<>>
    /\ \E i \in 1..Len(notifications) :
         /\ notifications[i].senderId = Last.user
         /\ Last.id \in {notifications[i].questionId, notifications[i].answerId}
         /\ notifications[i].message #
              (IF Last.vote = "up" THEN "upvoted" ELSE "downvoted")

\* ---------------------------------------------------------------- C11
\* The author of the item a vote request addresses.
AuthorOf(r) ==
    IF r.kind = "voteQuestion" THEN questions[r.id].askedBy
    ELSE answers[r.id].answeredBy

\* The request addresses a document that findById returns and that is not
\* soft-deleted.
Found(r) ==
    IF r.kind \in {"voteQuestion", "deleteQuestion", "postAnswer"}
    THEN r.id \in DOMAIN questions /\ ~questions[r.id].isDeleted
    ELSE r.id \in DOMAIN answers /\ ~answers[r.id].isDeleted

\* The step serves an up or down vote of the item's own author.
SelfVoteServed ==
    /\ served' = served + 1
    /\ Served.kind \in VoteKinds
    /\ Served.vote \in VoteTypes
    /\ Found(Served)
    /\ Served.user = AuthorOf(Served)

\* A self-vote is answered 400 with the route's message; the questions, the
\* answers and the notifications stay as they are.
C11_SelfVoteStep ==
    SelfVoteServed
    => /\ Served.status = 400
       /\ Served.message = (IF Served.kind = "voteQuestion"
                            THEN "Cannot vote on your own question"
                            ELSE "Cannot vote on your own answer")
       /\ questions' = questions
       /\ answers' = answers
       /\ notifications' = notifications

\* No item's voteHistory holds an entry of the item's author.
AuthorHasNoEntry ==
    /\ \A q \in DOMAIN questions :
         EntriesOf(questions[q].voteHistory, questions[q].askedBy) = {}
    /\ \A a \in DOMAIN answers :
         EntriesOf(answers[a].voteHistory, answers[a].answeredBy) = {}

\* C11: a vote whose voter is the item's author (askedBy, answeredBy) is
\* rejected with 400 whatever the direction and the item's ledger, changes
\* neither votes nor voteHistory and creates no notification; an author
\* never has an entry in the own item's voteHistory.
C11_SelfVoteRejected == []AuthorHasNoEntry /\ [][C11_SelfVoteStep]_vars

\* C11 witness: the author of an answer that holds two other voters'
\* entries voted on it and got 400.
C11_Witness ==
    /\ Last.pc = "done"
    /\ Last.kind = "voteAnswer"
    /\ Last.status = 400
    /\ Last.message = "Cannot vote on your own answer"
    /\ Last.user = answers[Last.id].answeredBy
    /\ Len(answers[Last.id].voteHistory) = 2

\* ---------------------------------------------------------------- C12
\* The step serves an accept or unaccept request (kind) of the owner of the
\* question of a found answer, the question being found too.
OwnerServed(kind) ==
    /\ served' = served + 1
    /\ Served.kind = kind
    /\ Found(Served)
    /\ LET q == answers[Served.id].questionId IN
         /\ q \in DOMAIN questions /\ ~questions[q].isDeleted
         /\ Served.user = questions[q].askedBy

\* The question of the answer a request addresses.
QuestionOf(r) == answers[r.id].questionId

\* The owner accepts B while another answer A of the question is the
\* accepted one: the request succeeds, A's flag is cleared, B's is set and
\* the pointer is B.
C12_AcceptOther ==
    ( /\ OwnerServed("accept")
      /\ LET A == questions[QuestionOf(Served)].acceptedAnswer IN
           /\ A # NULL /\ A # Served.id
           /\ A \in DOMAIN answers /\ answers[A].isAccepted
           /\ answers[A].questionId = QuestionOf(Served) )
    => LET q == QuestionOf(Served)
           A == questions[q].acceptedAnswer IN
         /\ Served.status = 200
         /\ ~answers'[A].isAccepted
         /\ answers'[Served.id].isAccepted
         /\ questions'[q].acceptedAnswer = Served.id

\* C12: if A is the accepted answer of a question and the owner accepts a
\* different answer B of it, then afterwards A.isAccepted = false,
\* B.isAccepted = true and the question's acceptedAnswer is B.
C12_AcceptReplacesPrevious == [][C12_AcceptOther]_vars

\* C12 witness: the owner accepted one answer while the other was the
\* accepted one.
C12_Witness ==
    /\ Last.pc = "done" /\ Last.kind = "accept" /\ Last.status = 200
    /\ LET A == before.questions["q1"].acceptedAnswer IN
         /\ A # NULL /\ A # Last.id
         /\ before.answers[A].isAccepted
         /\ ~answers[A].isAccepted
    /\ answers[Last.id].isAccepted
    /\ questions["q1"].acceptedAnswer = Last.id

\* ---------------------------------------------------------------- C13
\* The owner's unaccept of an answer whose flag is false is answered 400 and
\* leaves the answers and the questions as they are.
C13_UnacceptOther ==
    ( /\ OwnerServed("unaccept")
      /\ ~answers[Served.id].isAccepted )
    => /\ Served.status = 400
       /\ Served.message = "This answer is not currently accepted"
       /\ answers' = answers
       /\ questions' = questions

\* C13: an unaccept request of the question's owner on an answer whose
\* isAccepted is false fails with 400 and changes no answer's isAccepted
\* and no question's acceptedAnswer.
C13_UnacceptNotAcceptedRejected == [][C13_UnacceptOther]_vars

\* C13 witness: while one answer was the accepted one, the owner asked to
\* unaccept the other and got 400.
C13_Witness ==
    /\ Last.pc = "done" /\ Last.kind = "unaccept" /\ Last.status = 400
    /\ Last.user = questions["q1"].askedBy
    /\ questions["q1"].acceptedAnswer \notin {NULL, Last.id}
    /\ answers[questions["q1"].acceptedAnswer].isAccepted
    /\ ~answers[Last.id].isAccepted

\* ---------------------------------------------------------------- C14
\* The acceptance state of question q in a store: its acceptedAnswer and
\* the answers of q whose isAccepted is true.
Acceptance(store, q) ==
    [acceptedAnswer |-> store.questions[q].acceptedAnswer,
     accepted |-> {a \in DOMAIN store.answers :
                     /\ store.answers[a].questionId = q
                     /\ store.answers[a].isAccepted}]

\* The step serves an accept or unaccept request of somebody who is not the
\* owner of the question of the (found) answer.
NonOwnerServed ==
    /\ served' = served + 1
    /\ Served.kind \in {"accept", "unaccept"}
    /\ Found(Served)
    /\ LET q == QuestionOf(Served) IN
         /\ q \in DOMAIN questions /\ ~questions[q].isDeleted
         /\ Served.user # questions[q].askedBy

\* A non-owner's accept or unaccept is answered 403 and changes no
\* acceptance state; whatever request changes a question's acceptance state
\* comes from the question's author.
C14_OwnerOnlyStep ==
    /\ NonOwnerServed
         => /\ Served.status = 403
            /\ \A q \in DOMAIN questions :
                 Acceptance(NowNext, q) = Acceptance(Now, q)
    /\ \A q \in DOMAIN questions :
         Acceptance(NowNext, q) # Acceptance(Now, q)
           => Served.user = questions[q].askedBy

\* C14: an accept or unaccept request whose requester is not the question's
\* author fails with 403 and changes no isAccepted flag and no
\* acceptedAnswer; only the question's author ever changes a question's
\* acceptance state.
C14_OnlyOwnerChangesAcceptance == [][C14_OwnerOnlyStep]_vars

\* C14 witness: somebody other than the owner asked to unaccept the
\* accepted answer and got 403; the answer is still the accepted one.
C14_Witness ==
    /\ Last.pc = "done" /\ Last.kind = "unaccept" /\ Last.status = 403
    /\ Last.user # questions["q1"].askedBy
    /\ answers[Last.id].isAccepted
    /\ questions["q1"].acceptedAnswer = Last.id

\* ---------------------------------------------------------------- C15
\* An accept of an answer that is not in the collection or is soft-deleted
\* is answered 404 and leaves the answers and the questions as they are.
C15_AcceptMissing ==
    ( /\ served' = served + 1
      /\ Served.kind = "accept"
      /\ ~Found(Served) )
    => /\ Served.status = 404
       /\ Served.message = "Answer not found"
       /\ answers' = answers
       /\ questions' = questions

\* C15: an accept request on an answer that does not exist or is
\* soft-deleted fails with 404 and leaves every answer's isAccepted and the
\* question's acceptedAnswer unchanged.
C15_AcceptDeletedNotFound == [][C15_AcceptMissing]_vars

\* C15 witness: with one answer accepted, the owner asked to accept the
\* other, soft-deleted by then, and got 404.
C15_Witness ==
    /\ Last.pc = "done" /\ Last.kind = "accept" /\ Last.status = 404
    /\ Last.user = questions["q1"].askedBy
    /\ Last.id \in DOMAIN answers
    /\ answers[Last.id].isDeleted /\ ~answers[Last.id].isAccepted
    /\ questions["q1"].acceptedAnswer \notin {NULL, Last.id}
    /\ answers[questions["q1"].acceptedAnswer].isAccepted

\* ---------------------------------------------------------------- C16
\* The request of the step as it arrived, with a notification that is
\* created.
ServedNotifying ==
    NewRequest(Served.kind, Served.id, Served.user, Served.vote, FALSE)

\* A vote or an accept whose notification throws answers what it would
\* answer otherwise and leaves the questions and the answers it would leave
\* otherwise: a recorded vote is in the ledger, an accepted answer is the
\* question's acceptedAnswer; no notification is added.  No request adds
\* more than one notification.
C16_NotifyStep ==
    /\ ( /\ served' = served + 1
         /\ Served.notifFails )
         => LET o == Handle(DB, ServedNotifying) IN
              /\ Served.status = o.req.status
              /\ Served.message = o.req.message
              /\ questions' = o.db.questions
              /\ answers' = o.db.answers
              /\ notifications' = notifications
              /\ Found(Served) /\ Served.kind \in VoteKinds
                   /\ Served.user # AuthorOf(Served)
                   => /\ Served.status = 200
                      /\ Target(NowNext, Served).votes # Target(Now, Served).votes
                      /\ Target(NowNext, Served).voteHistory #
                           Target(Now, Served).voteHistory
              /\ Found(Served) /\ Served.kind = "accept"
                   /\ Served.user = questions[QuestionOf(Served)].askedBy
                   => /\ Served.status = 200
                      /\ questions'[QuestionOf(Served)].acceptedAnswer = Served.id
    /\ Len(notifications') <= Len(notifications) + 1

\* C16: if creating the notification fails after a vote or an accept has
\* been saved, the request still answers success and the saved vote or
\* acceptance stays; a request creates at most one notification.
C16_NotificationFailureSwallowed == [][C16_NotifyStep]_vars

\* C16 witness: an accept replaced the accepted answer, its notification
\* threw, and the request answered 200.
C16_Witness ==
    /\ Last.pc = "done" /\ Last.kind = "accept" /\ Last.notifFails
    /\ Last.status = 200
    /\ before.questions["q1"].acceptedAnswer \notin {NULL, Last.id}
    /\ questions["q1"].acceptedAnswer = Last.id
    /\ answers[Last.id].isAccepted
    /\ \A i \in 1..Len(notifications) : notifications[i].answerId # Last.id

\* ---------------------------------------------------------------- C17
\* Slot s holds an accept request that takes a step.
AcceptSteps(s) ==
    /\ requests[s].kind = "accept"
    /\ requests'[s].kind = "accept"
    /\ InFlight(requests[s])
    /\ requests'[s] # requests[s]

\* The await an accept request comes to only from the await before it:
\* the notification after question.save(), question.save() after
\* answer.accept(), and answer.accept() after previousAnswer.unaccept()
\* whenever the loaded question had an acceptedAnswer.
AcceptOrder(s) ==
    /\ requests'[s].pc = "notify" => requests[s].pc = "saveQuestion"
    /\ requests'[s].pc = "saveQuestion" => requests[s].pc = "saveAnswer"
    /\ requests'[s].pc = "saveAnswer"
         => \/ requests[s].pc = "savePrevious"
            \/ /\ requests[s].pc = "findQuestion"
               /\ requests'[s].question.cur.acceptedAnswer = NULL
            \/ /\ requests[s].pc = "findPrevious"
               /\ requests[s].question.cur.acceptedAnswer \notin DOMAIN answers

\* A step that adds a notification is the last step of an accept request,
\* which answers 200; it writes no answer and no question, and the one
\* notification, of type 'accept', goes to the accepted answer's author.
NotifiedBy(s) ==
    /\ requests[s].kind = "accept"
    /\ requests[s].pc = "notify"
    /\ requests'[s].pc = "done"
    /\ requests'[s].status = 200
    /\ questions' = questions
    /\ answers' = answers
    /\ Len(notifications') = Len(notifications) + 1
    /\ SubSeq(notifications', 1, Len(notifications)) = notifications
    /\ LET n == notifications'[Len(notifications')] IN
         /\ n.type = "accept"
         /\ n.answerId = requests[s].id
         /\ n.recipientId = answers[requests[s].id].answeredBy

C17_AcceptStep ==
    /\ \A s \in Slots : AcceptSteps(s) => AcceptOrder(s)
    /\ notifications' # notifications => \E s \in Slots : NotifiedBy(s)
    /\ \A s \in Slots :
         /\ requests'[s] # requests[s]
         /\ requests'[s].pc = "done"
         /\ requests'[s].status \in {403, 404}
         => notifications' = notifications

\* C17: in every accept request the 'accept' notification is created only
\* after the writes of the acceptance (previous answer unaccepted, target
\* answer flagged, question pointer set) have been saved; its recipient is
\* the accepted answer's author; a request that fails with 404 or 403
\* creates none.
C17_NotifiedAfterAcceptanceSaved == [][C17_AcceptStep]_vars

\* C17 witness: a second accept replaced the first; each created its
\* notification, for its answer's author, after its writes.
C17_Witness ==
    /\ Len(notifications) = 2
    /\ notifications[1].answerId # notifications[2].answerId
    /\ LET n == notifications[2] IN
         /\ n.type = "accept"
         /\ n.recipientId = answers[n.answerId].answeredBy
         /\ answers[n.answerId].isAccepted
         /\ ~answers[notifications[1].answerId].isAccepted
         /\ questions[n.questionId].acceptedAnswer = n.answerId
    /\ \E s \in Slots : requests[s].pc = "done" /\ requests[s].status = 404

\* ---------------------------------------------------------------- C18
NoneAccepted == [state |-> "NoneAccepted", answer |-> NULL]

AcceptedAnswer(X) == [state |-> "AcceptedAnswer", answer |-> X]

\* The state of question q in the acceptance state machine: NoneAccepted
\* when acceptedAnswer is null and no answer is flagged, AcceptedAnswer(X)
\* when acceptedAnswer is X and X alone is flagged, and no state of the
\* machine otherwise.
AcceptanceState(store, q) ==
    LET acc == Acceptance(store, q) IN
    IF acc.acceptedAnswer = NULL /\ acc.accepted = {}
    THEN NoneAccepted
    ELSE IF acc.accepted = {acc.acceptedAnswer}
    THEN AcceptedAnswer(acc.acceptedAnswer)
    ELSE [state |-> "none of the machine's", answer |-> acc.acceptedAnswer]

\* Every step that changes the acceptance state of a question serves an
\* accept or an unaccept and is one of the three transitions.
C18_AcceptanceStep ==
    \A q \in DOMAIN questions :
      Acceptance(NowNext, q) # Acceptance(Now, q)
      => LET pre == AcceptanceState(Now, q)
             post == AcceptanceState(NowNext, q) IN
           /\ served' = served + 1
           /\ \/ /\ Served.kind = "accept"
                 /\ pre.state \in {"NoneAccepted", "AcceptedAnswer"}
                 /\ post = AcceptedAnswer(Served.id)
              \/ /\ Served.kind = "unaccept"
                 /\ pre = AcceptedAnswer(Served.id)
                 /\ post = NoneAccepted

\* C18: a question's acceptance state (acceptedAnswer and the isAccepted
\* flags of its answers) changes only through accept and unaccept requests
\* and only along NoneAccepted -> AcceptedAnswer(X) by accept(X),
\* AcceptedAnswer(X) -> AcceptedAnswer(Y) by accept(Y) and
\* AcceptedAnswer(X) -> NoneAccepted by unaccept(X); votes, edits, posted
\* answers and soft deletes never change it.
C18_AcceptanceTransitions == [][C18_AcceptanceStep]_vars

\* The part of C18 about the other routes: a step that serves a vote, an
\* edit, a post or a soft delete leaves every question's acceptance state
\* as it is.
OtherRoutesKeepAcceptance ==
    [][ served' = served + 1 /\ Served.kind \notin {"accept", "unaccept"}
        => \A q \in DOMAIN questions :
             Acceptance(NowNext, q) = Acceptance(Now, q) ]_vars

\* ---------------------------------------------------------------- C19
\* The owner's unaccept of the accepted answer X (flag true, acceptedAnswer
\* X) succeeds and ends with X's flag false and acceptedAnswer null; the
\* other answers' flags stay.
C19_UnacceptAccepted ==
    ( /\ OwnerServed("unaccept")
      /\ answers[Served.id].isAccepted
      /\ questions[QuestionOf(Served)].acceptedAnswer = Served.id )
    => /\ Served.status = 200
       /\ ~answers'[Served.id].isAccepted
       /\ questions'[QuestionOf(Served)].acceptedAnswer = NULL
       /\ \A a \in DOMAIN answers \ {Served.id} :
            answers'[a].isAccepted = answers[a].isAccepted

\* C19: a successful unaccept request of the question's owner on the
\* accepted answer X ends with X.isAccepted = false and the question's
\* acceptedAnswer = null, and no other answer's flag changed.
C19_UnacceptClearsBoth == [][C19_UnacceptAccepted]_vars

\* C19 witness: as the third request of a run, the owner unaccepted the
\* accepted answer; no answer is flagged any more.
C19_Witness ==
    /\ served = 3
    /\ Last.pc = "done" /\ Last.kind = "unaccept" /\ Last.status = 200
    /\ before.answers[Last.id].isAccepted
    /\ before.questions["q1"].acceptedAnswer = Last.id
    /\ ~answers[Last.id].isAccepted
    /\ questions["q1"].acceptedAnswer = NULL
    /\ \A a \in DOMAIN answers : ~answers[a].isAccepted /\ ~answers[a].isDeleted

\* ---------------------------------------------------------------- C20
\* A vote whose direction is neither 'up' nor 'down' is answered 400
\* 'Validation failed', whether or not its id names a document, and leaves
\* the questions, the answers and the notifications as they are.
C20_MalformedVote ==
    ( /\ served' = served + 1
      /\ Served.kind \in VoteKinds
      /\ Served.vote \notin VoteTypes )
    => /\ Served.status = 400
       /\ Served.message = "Validation failed"
       /\ questions' = questions
       /\ answers' = answers
       /\ notifications' = notifications

\* Every entry of every voteHistory holds 'up' or 'down'.
DirectionsValid ==
    \A d \in Items : \A i \in 1..Len(d.voteHistory) :
      d.voteHistory[i].vote \in VoteTypes

\* C20: a vote request whose direction is not 'up' or 'down' fails with
\* 400 'Validation failed' before the item is loaded and leaves every
\* item's votes and voteHistory unchanged; no voteHistory entry ever holds
\* another direction.
C20_MalformedVoteRejected == []DirectionsValid /\ [][C20_MalformedVote]_vars

\* C20 witness: a malformed vote for an id that names no document got 400
\* 'Validation failed' (not 404), the ledgers holding the votes recorded
\* before.
C20_Witness ==
    /\ served = 3
    /\ Last.pc = "done" /\ Last.kind \in VoteKinds
    /\ Last.vote \notin VoteTypes
    /\ Last.id = UnknownId
    /\ Last.status = 400 /\ Last.message = "Validation failed"
    /\ \E d \in Items : Len(d.voteHistory) = 2

\* ---------------------------------------------------------------- C21
\* The votes and the voteHistory of every question and answer of a store.
Ledgers(store) ==
    [questions |-> [q \in DOMAIN store.questions |->
                      <<store.questions[q].votes, store.questions[q].voteHistory>>],
     answers |-> [a \in DOMAIN store.answers |->
                    <<store.answers[a].votes, store.answers[a].voteHistory>>]]

\* Slot s holds a vote request whose findById is performed in the step.
VoteLoads(s) ==
    /\ requests[s].kind \in VoteKinds
    /\ requests[s].pc \in {"findAnswer", "findQuestion"}
    /\ requests'[s] # requests[s]

\* A vote whose findById finds no document or a soft-deleted one is
\* answered 404; no ledger changes and no notification is added.
VoteOnMissing(s) ==
    VoteLoads(s) /\ ~Found(requests[s])
    => /\ requests'[s].pc = "done"
       /\ requests'[s].status = 404
       /\ Ledgers(NowNext) = Ledgers(Now)
       /\ notifications' = notifications

\* The document a vote request has in hand.
InHand(r) == IF r.kind = "voteQuestion" THEN r.question ELSE r.answer

\* Slot s saves a vote on the item (kind, id) that it loaded while the item
\* was not soft-deleted.
SavesLoadedLive(s, kind, id) ==
    /\ requests[s].kind = kind /\ requests[s].id = id
    /\ requests[s].pc \in {"saveAnswer", "saveQuestion"}
    /\ requests'[s] # requests[s]
    /\ ~InHand(requests[s]).orig.isDeleted

\* The ledger of a soft-deleted item changes only by the save of a vote
\* that had loaded the item before it was deleted.
DeletedLedgerStep ==
    /\ \A q \in DOMAIN questions :
         /\ questions[q].isDeleted
         /\ Ledgers(NowNext).questions[q] # Ledgers(Now).questions[q]
         => \E s \in Slots : SavesLoadedLive(s, "voteQuestion", q)
    /\ \A a \in DOMAIN answers :
         /\ answers[a].isDeleted
         /\ Ledgers(NowNext).answers[a] # Ledgers(Now).answers[a]
         => \E s \in Slots : SavesLoadedLive(s, "voteAnswer", a)

Entry(u, d) == [user |-> u, vote |-> d]

\* The step serves the vote (u, d), which passes the route's checks; the
\* item has the score and the ledger given before the step and those given
\* after it.
VoteTakes(u, d, votes0, history0, votes1, history1) ==
    ( /\ VoteServed
      /\ Served.user = u /\ Served.vote = d
      /\ Target(Now, Served).votes = votes0
      /\ Target(Now, Served).voteHistory = history0 )
    => /\ Target(NowNext, Served).votes = votes1
       /\ Target(NowNext, Served).voteHistory = history1

\* The four calls of the scenario, each from the state the call before it
\* leaves: scores 1, 0, -2, -1.
C22_ScenarioStep ==
    \A u1, u2 \in Users :
      u1 # u2
      => /\ VoteTakes(u1, "up", 0, <<>>,
                      1, <<Entry(u1, "up")>>)
         /\ VoteTakes(u2, "down", 1, <<Entry(u1, "up")>>,
                      0, <<Entry(u1, "up"), Entry(u2, "down")>>)
         /\ VoteTakes(u1, "down", 0, <<Entry(u1, "up"), Entry(u2, "down")>>,
                      -2, <<Entry(u1, "down"), Entry(u2, "down")>>)
         /\ VoteTakes(u1, "down", -2, <<Entry(u1, "down"), Entry(u2, "down")>>,
                      -1, <<Entry(u2, "down")>>)

\* C22: from votes = 0 and an empty voteHistory, the calls castVote(u1, up),
\* castVote(u2, down), castVote(u1, down), castVote(u1, down), one after the
\* other, give the scores 1, 0, -2, -1, and the voteHistory ends with one
\* entry, u2's, with direction down.
C22_ScenarioScores == [][C22_ScenarioStep]_vars

\* C22 witness: the fourth call of the scenario has been served: the score
\* went from -2 to -1 and u2's 'down' is the only entry left.
C22_Witness ==
    /\ served = 4
    /\ LastVoteRecorded
    /\ Last.vote = "down"
    /\ Target(before, Last).votes = -2
    /\ Len(Target(before, Last).voteHistory) = 2
    /\ Target(before, Last).voteHistory[1] = Entry(Last.user, "down")
    /\ Target(Now, Last).votes = -1
    /\ Len(Target(Now, Last).voteHistory) = 1
    /\ Target(Now, Last).voteHistory[1].vote = "down"
    /\ Target(Now, Last).voteHistory[1].user # Last.user
    /\ Len(notifications) = 4
    /\ notifications[1].message = "upvoted"
    /\ notifications[1].senderId = Last.user

\* ---------------------------------------------------------------- C23
\* The slot whose request takes a step of its handler.
Stepping(s) == InFlight(requests[s]) /\ requests'[s] # requests[s]

\* Every question and answer but the one request r addresses keeps its score
\* and its ledger.
OtherLedgersKept(r) ==
    /\ \A q \in DOMAIN questions :
         (r.kind = "voteQuestion" /\ r.id = q)
         \/ /\ questions'[q].votes = questions[q].votes
            /\ questions'[q].voteHistory = questions[q].voteHistory
    /\ \A a \in DOMAIN answers :
         (r.kind = "voteAnswer" /\ r.id = a)
         \/ /\ answers'[a].votes = answers[a].votes
            /\ answers'[a].voteHistory = answers[a].voteHistory

\* Every question but the one the answer of request r belongs to keeps its
\* acceptedAnswer, and the answers of those questions keep isAccepted.
OtherAcceptanceKept(r) ==
    LET Q == answers[r.id].questionId IN
    /\ \A q \in DOMAIN questions \ {Q} :
         questions'[q].acceptedAnswer = questions[q].acceptedAnswer
    /\ \A a \in DOMAIN answers :
         answers[a].questionId # Q
         => answers'[a].isAccepted = answers[a].isAccepted

C23_IndependentStep ==
    \A s \in Slots :
      Stepping(s)
      => /\ requests[s].kind \in VoteKinds => OtherLedgersKept(requests[s])
         /\ requests[s].kind \in {"accept", "unaccept"}
            => OtherAcceptanceKept(requests[s])

\* C23: a castVote on an item leaves the votes and voteHistory of every
\* other question and answer unchanged, and an accept or unaccept for a
\* question leaves the acceptedAnswer of every other question and the
\* isAccepted flag of the other questions' answers unchanged, however the
\* requests interleave.
C23_ItemsIndependent == [][C23_IndependentStep]_vars

\* C23 witness: an answer of each question is accepted by two requests that
\* overlapped, and each question references its own answer.
C23_Witness ==
    /\ DOMAIN questions = {"q1", "q2"}
    /\ \A s \in Slots :
         /\ requests[s].kind = "accept"
         /\ requests[s].pc = "done"
         /\ requests[s].status = 200
    /\ served = 2
    /\ questions["q2"].acceptedAnswer = "b1"
    /\ questions["q1"].acceptedAnswer \in {"a1", "a2"}
    /\ answers["b1"].isAccepted
    /\ answers[questions["q1"].acceptedAnswer].isAccepted

\* ---------------------------------------------------------------- C24
\* The acceptance of question q is consistent in the store: no answer is
\* accepted and acceptedAnswer is null, or one answer is and acceptedAnswer
\* references it.
Consistent(store, q) ==
    AcceptanceState(store, q) \in
      {NoneAccepted} \cup {AcceptedAnswer(a) : a \in DOMAIN store.answers}

\* The three writes of an accept request, each at its own await: a flag is
\* cleared by previousAnswer.unaccept(), the target's flag is set by
\* answer.accept(), and the question changes by question.save().
WritesInOrder(s) ==
    LET r == requests[s] IN
    /\ (\E a \in DOMAIN answers : answers[a].isAccepted /\ ~answers'[a].isAccepted)
         => r.pc = "savePrevious" /\ requests'[s].pc = "saveAnswer"
    /\ (\E a \in DOMAIN answers : ~answers[a].isAccepted /\ answers'[a].isAccepted)
         => /\ r.pc = "saveAnswer" /\ requests'[s].pc = "saveQuestion"
            /\ ~answers[r.id].isAccepted /\ answers'[r.id].isAccepted
    /\ questions' # questions
         => r.pc = "saveQuestion" /\ requests'[s].pc = "notify"

C24_AcceptStep ==
    \A s \in Slots : AcceptSteps(s) => WritesInOrder(s) /\ AcceptOrder(s)

\* An accept request that began in a consistent state has, wherever it is or
\* stopped, left at most one answer of the question accepted.
C24_AtMostOne ==
    (Last.kind = "accept" /\ \A q \in DOMAIN questions : Consistent(before, q))
    => \A q \in DOMAIN questions : Cardinality(AcceptedOf(q)) <= 1

\* C24: an accept request writes in the order (1) the previously accepted
\* answer's flag is cleared, (2) the target's flag is set, (3) the
\* question's acceptedAnswer is set; so from a consistent state, a request
\* that stops after any prefix of these writes leaves at most one answer of
\* the question with isAccepted = true.
C24_PrefixLeavesAtMostOne == []C24_AtMostOne /\ [][C24_AcceptStep]_vars

\* C24 witness: an accept request that began with the other answer accepted
\* stopped after its second write: the target is the one accepted answer and
\* the question still references the other one.
C24_Witness ==
    /\ Last.kind = "accept"
    /\ Last.pc = "done"
    /\ Last.status = 500
    /\ Last.id \in DOMAIN answers
    /\ \E p \in DOMAIN answers \ {Last.id} :
         /\ AcceptanceState(before, "q1") = AcceptedAnswer(p)
         /\ questions["q1"].acceptedAnswer = p
         /\ ~answers[p].isAccepted
    /\ AcceptedOf("q1") = {Last.id}

\* ---------------------------------------------------------------- C25
\* Score and ledger of every question and answer of a store.
Scores(store) ==
    [questions |-> [q \in DOMAIN store.questions |->
                      <<store.questions[q].votes, store.questions[q].voteHistory>>],
     answers |-> [a \in DOMAIN store.answers |->
                    <<store.answers[a].votes, store.answers[a].voteHistory>>]]

\* The items a store has that another one has not.
Created(store, old) ==
    {store.questions[q] : q \in DOMAIN store.questions \ DOMAIN old.questions}
    \cup {store.answers[a] : a \in DOMAIN store.answers \ DOMAIN old.answers}

\* The items of the old store keep their scores and ledgers in the new one.
ScoresKept(old, new) ==
    /\ \A q \in DOMAIN old.questions :
         Scores(new).questions[q] = Scores(old).questions[q]
    /\ \A a \in DOMAIN old.answers :
         Scores(new).answers[a] = Scores(old).answers[a]

C25_FieldsStep ==
    /\ \A item \in Created(NowNext, Now) :
         item.votes = 0 /\ item.voteHistory = <<>>
    /\ Served.kind \notin VoteKinds => ScoresKept(Now, NowNext)
    /\ Served.kind \in VoteKinds
         => /\ \A q \in DOMAIN questions :
                 questions'[q].isDeleted = questions[q].isDeleted
            /\ \A a \in DOMAIN answers :
                 answers'[a].isDeleted = answers[a].isDeleted

\* C25: every question and answer is created with votes = 0 and an empty
\* voteHistory; creating, editing, soft-deleting, viewing, accepting and
\* unaccepting leave votes and voteHistory of every item unchanged, and
\* castVote never changes isDeleted.
C25_OnlyVotesChangeScores == [][C25_FieldsStep]_vars

\* C25 witness: a question that has a vote is viewed: views goes from 0 to 1,
\* score and ledger stay.
C25_Witness ==
    /\ Last.kind = "viewQuestion"
    /\ Last.pc = "done"
    /\ Last.status = 200
    /\ before.questions[Last.id].views = 0
    /\ questions[Last.id].views = 1
    /\ questions[Last.id].votes = 1
    /\ Len(questions[Last.id].voteHistory) = 1
    /\ before.questions[Last.id].votes = 1

\* ---------------------------------------------------------------- C26
\* The request as it arrived.
Arrived(r) == NewRequest(r.kind, r.id, r.user, r.vote, FALSE)

\* The store of the answers after request r alone, served from the store the
\* overlapping requests found.
Alone(r) ==
    Handle([questions |-> before.questions, answers |-> before.answers,
            notifications |-> <<>>], Arrived(r)).db.answers

\* The answers an acceptance request writes: its target and, for an accept,
\* the answer its question references.
Touched(r) ==
    {r.id} \cup
    (IF r.kind = "accept"
     THEN {before.questions[before.answers[r.id].questionId].acceptedAnswer}
          \ {NULL}
     ELSE {})

\* Slots v and a hold a vote and an acceptance request that overlapped, both
\* answered 200, and the acceptance touched the answer voted on.
VoteMetAcceptance(v, a) ==
    /\ requests[v].kind = "voteAnswer"
    /\ requests[a].kind \in {"accept", "unaccept"}
    /\ requests[v].pc = "done" /\ requests[v].status = 200
    /\ requests[a].pc = "done" /\ requests[a].status = 200
    /\ requests[v].id \in Touched(requests[a])

\* C26: when a castVote on an answer interleaves with an accept or unaccept
\* that touches the same answer, the answer ends with the vote's score and
\* ledger and with the isAccepted value the acceptance request gives it.
C26_NoLostUpdate ==
    \A v, a \in {1, 2} :
      VoteMetAcceptance(v, a)
      => LET X == requests[v].id IN
         /\ answers[X].votes = Alone(requests[v])[X].votes
         /\ answers[X].voteHistory = Alone(requests[v])[X].voteHistory
         /\ answers[X].isAccepted = Alone(requests[a])[X].isAccepted

\* C26 witness: a vote on the accepted answer overlapped the accept request
\* for the other answer: the answer voted on has the vote and is no longer
\* accepted.
C26_Witness ==
    /\ VoteMetAcceptance(2, 1)
    /\ requests[1].kind = "accept"
    /\ requests[2].id # requests[1].id
    /\ before.answers[requests[2].id].isAccepted
    /\ before.answers[requests[2].id].votes = 0
    /\ answers[requests[2].id].votes # 0
    /\ Len(answers[requests[2].id].voteHistory) = 1
    /\ ~answers[requests[2].id].isAccepted
    /\ answers[requests[1].id].isAccepted

\* ---------------------------------------------------------------- C27
\* The owner's accept request for the answer that is the accepted one: the
\* answer is still flagged and still referenced after it.
C27_AcceptAgain ==
    ( /\ Served.kind = "accept"
      /\ Served.status = 200
      /\ answers[Served.id].isAccepted
      /\ questions[answers[Served.id].questionId].acceptedAnswer = Served.id )
    => /\ answers'[Served.id].isAccepted
       /\ questions'[answers[Served.id].questionId].acceptedAnswer = Served.id

\* C27: accept is idempotent on the currently accepted answer: after the
\* owner's accept(A) on the accepted answer A, the stored A.isAccepted is
\* still true and question.acceptedAnswer is still A.
C27_AcceptIdempotent == [][C27_AcceptAgain]_vars

\* ---------------------------------------------------------------- C28
\* C28: with accept, unaccept and delete requests served one at a time, a
\* question's acceptedAnswer never references a soft-deleted answer.
C28_AcceptedNotDeleted ==
    \A q \in DOMAIN questions :
      questions[q].acceptedAnswer # NULL
      => ~answers[questions[q].acceptedAnswer].isDeleted

\* ---------------------------------------------------------------- C29
\* C29: after any sequence of successful fetchNotifications, markAsRead and
\* markAllAsRead calls of the NotificationProvider, unreadCount is the
\* number of its notifications with read = false (so markAsRead on a
\* notification that is read already does not change unreadCount).
C29_UnreadCountMatches ==
    client.unreadCount = Cardinality(Unread(client.notifications))

\* ---------------------------------------------------------------- C30
\* The notifications of everybody but user u, in the collection's order.
OfOthers(notifs, u) ==
    LET other(n) == n.recipientId # u IN SelectSeq(notifs, other)

\* The request names a notification that exists and is somebody else's.
NamesAnothers(r) ==
    /\ r.kind \in {"markAsRead", "deleteNotification"}
    /\ \E i \in 1..Len(notifications) :
         /\ notifications[i]._id = r.notificationId
         /\ notifications[i].recipientId # r.user

C30_NotificationStep ==
    /\ OfOthers(notifications', Served.user) = OfOthers(notifications, Served.user)
    /\ NamesAnothers(Served)
         => Served.status = 404 /\ notifications' = notifications
    /\ Served.kind = "markAllAsRead"
         => /\ Len(notifications') = Len(notifications)
            /\ \A i \in 1..Len(notifications) :
                 notifications'[i] =
                   IF notifications[i].recipientId = Served.user
                   THEN [notifications[i] EXCEPT !.read = TRUE]
                   ELSE notifications[i]
    /\ \A i \in 1..Len(notifications), j \in 1..Len(notifications') :
         (notifications[i]._id = notifications'[j]._id /\ notifications[i].read)
         => notifications'[j].read

\* C30: markAsRead(id, U) and deleteNotification(id, U) on a notification
\* whose recipientId is not U answer 404 and leave it unchanged,
\* markAllAsRead(U) sets read = true only on U's notifications, no request
\* of U changes another user's notification, and read never goes from true
\* back to false.
C30_OnlyOwnNotifications == [][C30_NotificationStep]_vars

\* C30 witness: after a user marked all their notifications as read, the
\* same user's markAsRead on another user's unread notification is answered
\* 404 and that notification is still unread.
C30_Witness ==
    /\ Last.kind = "markAsRead"
    /\ Last.pc = "done"
    /\ Last.status = 404
    /\ \E i, j \in 1..Len(notifications) :
         /\ notifications[i]._id = Last.notificationId
         /\ notifications[i].recipientId # Last.user
         /\ ~notifications[i].read
         /\ notifications[j].recipientId = Last.user
         /\ notifications[j].read

====
